---- MODULE Spec2Model ----
(***************************************************************************)
(* A model of mcp-tool-chainer: the line-delimited JSON-RPC stdio          *)
(* transport (McpClientTransport), the client manager and its tool         *)
(* registry (McpClientManager), the chain executor (ChainExecutor) and the *)
(* mcp_chain tool handler.                                                 *)
(*                                                                         *)
(* Text is a sequence of tokens.  A token is one character where the code  *)
(* looks at characters ("{", "}", "[", "]", ":", ",", the double quote,    *)
(* the backslash, the newline, the space, a digit) and one word where it   *)
(* does not ("id", "xml", "<html", "INFO", the sentinel CHAIN_RESULT).     *)
(***************************************************************************)
EXTENDS Integers, Sequences, FiniteSets, TLC

\* ------------------------------------------------------------------------
\* Text
\* ------------------------------------------------------------------------

Q == "\""
BS == "\\"
NL == "\n"
SP == " "

Ws == {SP, NL}

\* The element of a one-element set: The({e(x) : x \in {a}}) is e(a), with a
\* worked out once.
The(S) == CHOOSE x \in S : TRUE

Digits == {"0", "1", "2", "3", "4", "5", "6", "7", "8", "9"}

DigitVal(d) ==
    CASE d = "0" -> 0 [] d = "1" -> 1 [] d = "2" -> 2 [] d = "3" -> 3
      [] d = "4" -> 4 [] d = "5" -> 5 [] d = "6" -> 6 [] d = "7" -> 7
      [] d = "8" -> 8 [] d = "9" -> 9

\* The tokens that have a meaning of their own in JSON text.
JsonPunct == {"{", "}", "[", "]", ":", ",", Q, BS}

\* s.substring(i - 1): the suffix of s that starts at position i (1-based).
Suffix(s, i) == IF i > Len(s) THEN <<>> ELSE SubSeq(s, i, Len(s))

\* s.substring(0, n): the first n tokens of s.
Prefix(s, n) == IF n <= 0 THEN <<>> ELSE SubSeq(s, 1, IF n > Len(s) THEN Len(s) ELSE n)

\* s.startsWith(p)
StartsWith(s, p) == Len(p) <= Len(s) /\ SubSeq(s, 1, Len(p)) = p

\* s.indexOf(p), 1-based; 0 when p does not occur in s.
IndexOf(s, p) ==
    IF \E i \in 1..(Len(s) - Len(p) + 1) : SubSeq(s, i, i + Len(p) - 1) = p
    THEN CHOOSE i \in 1..(Len(s) - Len(p) + 1) :
             /\ SubSeq(s, i, i + Len(p) - 1) = p
             /\ \A j \in 1..(i - 1) : SubSeq(s, j, j + Len(p) - 1) # p
    ELSE 0

\* s.includes(p)
Includes(s, p) == IndexOf(s, p) # 0

\* The text String.prototype.replace puts in the place of a match when it is
\* given the replacement r as a string: $$ stands for $, $& for the match,
\* $ and a backtick for the text before the match, $ and an apostrophe for
\* the text after it.
RECURSIVE GetSubstitution(_, _, _, _)
GetSubstitution(r, matched, before, after) ==
    IF r = <<>> THEN <<>>
    ELSE IF Head(r) = "$" /\ Len(r) > 1 /\ r[2] \in {"$", "&", "backtick", "apostrophe"}
         THEN (CASE r[2] = "$" -> <<"$">>
                 [] r[2] = "&" -> matched
                 [] r[2] = "backtick" -> before
                 [] OTHER -> after)
              \o GetSubstitution(SubSeq(r, 3, Len(r)), matched, before, after)
    ELSE <<Head(r)>> \o GetSubstitution(Tail(r), matched, before, after)

\* s.replace(p, r) with a string pattern: the first occurrence only.
ReplaceFirst(s, p, r) ==
    The({ IF i = 0 THEN s
          ELSE Prefix(s, i - 1)
               \o GetSubstitution(r, p, Prefix(s, i - 1), Suffix(s, i + Len(p)))
               \o Suffix(s, i + Len(p)) :
          i \in {IndexOf(s, p)} })

\* s.replace(/"/g, '\\"'): a backslash before every double quote.
RECURSIVE EscapeQuotes(_)
EscapeQuotes(s) ==
    IF s = <<>> THEN <<>>
    ELSE (IF Head(s) = Q THEN <<BS, Q>> ELSE <<Head(s)>>) \o EscapeQuotes(Tail(s))

\* s.replace(/\\(.)/g, '$1'): every backslash followed by a character other
\* than a line terminator is dropped and that character kept.
RECURSIVE StripEscapes(_)
StripEscapes(s) ==
    IF s = <<>> THEN <<>>
    ELSE IF Head(s) = BS /\ Len(s) >= 2 /\ s[2] # NL
         THEN <<s[2]>> \o StripEscapes(Suffix(s, 3))
         ELSE <<Head(s)>> \o StripEscapes(Tail(s))

\* s.trim()
RECURSIVE TrimLeft(_)
TrimLeft(s) == IF s # <<>> /\ Head(s) \in Ws THEN TrimLeft(Tail(s)) ELSE s

RECURSIVE TrimRight(_)
TrimRight(s) ==
    IF s # <<>> /\ s[Len(s)] \in Ws THEN TrimRight(SubSeq(s, 1, Len(s) - 1)) ELSE s

Trim(s) == TrimRight(TrimLeft(s))

\* s.split('\n'): the pieces between newlines; always at least one piece.
RECURSIVE Split(_)
Split(s) ==
    The({ IF i = 0 THEN <<s>> ELSE <<Prefix(s, i - 1)>> \o Split(Suffix(s, i + 1)) :
          i \in {IndexOf(s, <<NL>>)} })

\* ------------------------------------------------------------------------
\* JSON values and JSON.parse
\* ------------------------------------------------------------------------

JStr(s) == [t |-> "str", s |-> s]
JNum(n) == [t |-> "num", n |-> n]
JObj(m) == [t |-> "obj", m |-> m]
JArr(a) == [t |-> "arr", a |-> a]
JLit(w) == [t |-> w]
JNull == JLit("null")

\* JSON.parse reads its text one token after the other; this is the state it
\* is in between two tokens.
\*   ok      FALSE once the text is known not to be JSON
\*   mode    what may come next: "value", "valueOrEnd" (after "["),
\*           "keyOrEnd" (after "{"), "key", "colon", "afterValue",
\*           "str"/"esc" (inside a string literal), "num" (inside a number)
\*   stack   the arrays and objects that are open, innermost last: the
\*           elements or members read so far, and the key of the member whose
\*           value is being read
\*   cur     the characters of the string literal being read
\*   isKey   the string literal being read is a member's key
\*   n       the value of the number being read; zero: it began with 0
\*   done    a whole value has been read at the top level: v
ParserStart ==
    [ ok |-> TRUE, mode |-> "value", stack |-> <<>>, cur |-> <<>>, isKey |-> FALSE,
      n |-> 0, zero |-> FALSE, done |-> FALSE, v |-> JNull ]

Bad(st) == [st EXCEPT !.ok = FALSE]

\* A value v has been read: it is the top-level value, or one more element
\* or member of the innermost open container.
Complete(st, stack, v) ==
    IF stack = <<>>
    THEN [st EXCEPT !.mode = "afterValue", !.stack = <<>>, !.done = TRUE, !.v = v]
    ELSE LET top == stack[Len(stack)]
             item == IF top.t = "arr" THEN v ELSE [k |-> top.key, v |-> v]
         IN  [st EXCEPT !.mode = "afterValue",
                        !.stack = [stack EXCEPT ![Len(stack)].items = Append(@, item)]]

\* The innermost open container is closed by token c.
CloseTop(st, c) ==
    IF st.stack = <<>> THEN Bad(st)
    ELSE LET top == st.stack[Len(st.stack)]
             below == SubSeq(st.stack, 1, Len(st.stack) - 1)
         IN  IF top.t = "arr" /\ c = "]" THEN Complete(st, below, JArr(top.items))
             ELSE IF top.t = "obj" /\ c = "}" THEN Complete(st, below, JObj(top.items))
             ELSE Bad(st)

\* Token c where a value begins.
BeginValue(st, c) ==
    IF c = Q THEN [st EXCEPT !.mode = "str", !.cur = <<>>, !.isKey = FALSE]
    ELSE IF c \in Digits
         THEN [st EXCEPT !.mode = "num", !.n = DigitVal(c), !.zero = (c = "0")]
    ELSE IF c \in {"true", "false", "null"} THEN Complete(st, st.stack, JLit(c))
    ELSE IF c = "["
         THEN [st EXCEPT !.mode = "valueOrEnd",
                         !.stack = Append(@, [t |-> "arr", items |-> <<>>, key |-> <<>>])]
    ELSE IF c = "{"
         THEN [st EXCEPT !.mode = "keyOrEnd",
                         !.stack = Append(@, [t |-> "obj", items |-> <<>>, key |-> <<>>])]
    ELSE Bad(st)

\* Token c between two values.
Between(st, c) ==
    IF c \in Ws THEN st
    ELSE IF st.mode = "value" THEN BeginValue(st, c)
    ELSE IF st.mode = "valueOrEnd"
         THEN IF c = "]" THEN CloseTop(st, c) ELSE BeginValue(st, c)
    ELSE IF st.mode \in {"keyOrEnd", "key"}
         THEN IF c = Q THEN [st EXCEPT !.mode = "str", !.cur = <<>>, !.isKey = TRUE]
              ELSE IF c = "}" /\ st.mode = "keyOrEnd" THEN CloseTop(st, c)
              ELSE Bad(st)
    ELSE IF st.mode = "colon"
         THEN IF c = ":" THEN [st EXCEPT !.mode = "value"] ELSE Bad(st)
    ELSE IF st.stack = <<>> THEN Bad(st)
    ELSE IF c = ","
         THEN [st EXCEPT !.mode = IF st.stack[Len(st.stack)].t = "arr" THEN "value" ELSE "key"]
    ELSE CloseTop(st, c)

\* Token c inside a string literal.
InString(st, c) ==
    IF st.mode = "esc"
    THEN IF c \in {Q, BS, "/"} THEN [st EXCEPT !.mode = "str", !.cur = Append(@, c)]
         ELSE IF c = "n" THEN [st EXCEPT !.mode = "str", !.cur = Append(@, NL)]
         ELSE Bad(st)
    ELSE IF c = BS THEN [st EXCEPT !.mode = "esc"]
    ELSE IF c = NL THEN Bad(st)
    ELSE IF c # Q THEN [st EXCEPT !.cur = Append(@, c)]
    ELSE IF st.isKey
         THEN [st EXCEPT !.mode = "colon", !.stack[Len(st.stack)].key = st.cur]
    ELSE Complete(st, st.stack, JStr(st.cur))

\* The parser's state after token c.
JsonStep(st, c) ==
    IF st.mode \in {"str", "esc"} THEN InString(st, c)
    ELSE IF st.mode # "num" THEN Between(st, c)
    ELSE IF c \notin Digits THEN Between(Complete(st, st.stack, JNum(st.n)), c)
    ELSE IF st.zero THEN Bad(st)
    ELSE [st EXCEPT !.n = 10 * @ + DigitVal(c)]

RECURSIVE JsonRun(_, _, _)
JsonRun(s, i, st) ==
    IF i > Len(s) \/ ~st.ok THEN st ELSE JsonRun(s, i + 1, JsonStep(st, s[i]))

\* The parser's state at the end of the text.
JsonEnd(st) ==
    IF st.ok /\ st.mode = "num" /\ st.stack = <<>>
    THEN Complete(st, <<>>, JNum(st.n))
    ELSE st

\* JSON.parse(s): ok is FALSE where JSON.parse throws, v the value otherwise.
JsonParse(s) ==
    The({ [ok |-> st.ok /\ st.done /\ st.mode = "afterValue" /\ st.stack = <<>>, v |-> st.v] :
          st \in {JsonEnd(JsonRun(s, 1, ParserStart))} })

\* The digits of a natural number.
RECURSIVE NumDigits(_)
NumDigits(n) ==
    LET d == CHOOSE c \in Digits : DigitVal(c) = n % 10
    IN  IF n < 10 THEN <<d>> ELSE NumDigits(n \div 10) \o <<d>>

\* The characters of a string between the quotes JSON.stringify puts around it.
RECURSIVE EscapeStr(_)
EscapeStr(s) ==
    IF s = <<>> THEN <<>>
    ELSE (IF Head(s) \in {Q, BS} THEN <<BS, Head(s)>>
          ELSE IF Head(s) = NL THEN <<BS, "n">>
          ELSE <<Head(s)>>) \o EscapeStr(Tail(s))

RECURSIVE JsonStringify(_), StringifyElems(_), StringifyMembers(_)

\* JSON.stringify(v), without indentation.
JsonStringify(v) ==
    CASE v.t = "str" -> <<Q>> \o EscapeStr(v.s) \o <<Q>>
      [] v.t = "num" -> NumDigits(v.n)
      [] v.t = "arr" -> <<"[">> \o StringifyElems(v.a) \o <<"]">>
      [] v.t = "obj" -> <<"{">> \o StringifyMembers(v.m) \o <<"}">>
      [] OTHER -> <<v.t>>

StringifyElems(a) ==
    IF a = <<>> THEN <<>>
    ELSE JsonStringify(Head(a)) \o
         (IF Len(a) > 1 THEN <<",">> \o StringifyElems(Tail(a)) ELSE <<>>)

StringifyMembers(m) ==
    IF m = <<>> THEN <<>>
    ELSE <<Q>> \o EscapeStr(Head(m).k) \o <<Q, ":">> \o JsonStringify(Head(m).v) \o
         (IF Len(m) > 1 THEN <<",">> \o StringifyMembers(Tail(m)) ELSE <<>>)

\* obj[key] of a parsed value: the last member of that name, as JSON.parse
\* keeps it; Undefined when v is no object or has no such member.
Undefined == JLit("undefined")

Get(v, key) ==
    IF v.t # "obj" THEN Undefined
    ELSE IF \A i \in 1..Len(v.m) : v.m[i].k # <<key>> THEN Undefined
    ELSE v.m[CHOOSE i \in 1..Len(v.m) :
                 /\ v.m[i].k = <<key>>
                 /\ \A j \in (i + 1)..Len(v.m) : v.m[j].k # <<key>>].v

\* JavaScript's truthiness of a value.
Truthy(v) ==
    CASE v.t \in {"undefined", "null", "false"} -> FALSE
      [] v.t = "num" -> v.n # 0
      [] v.t = "str" -> v.s # <<>>
      [] OTHER -> TRUE

\* ------------------------------------------------------------------------
\* McpClientTransport: recognising frames on stdout
\* ------------------------------------------------------------------------

errorPatterns ==
    { <<"[", "ERROR", "]">>, <<"[", "WARN", "]">>, <<"[", "INFO", "]">>,
      <<"[", "DEBUG", "]">>, <<"Error:">>, <<"Warning:">>, <<"<!DOCTYPE">>,
      <<"<html">> }

isValidJSON(str) ==
    \E trimmed \in {Trim(str)} :
        /\ str # <<>>
        /\ \A pat \in errorPatterns : ~StartsWith(trimmed, pat)
        /\ StartsWith(trimmed, <<"{">>) \/ StartsWith(trimmed, <<"[">>)
        /\ JsonParse(trimmed).ok

\* safeJSONParse(str): the parsed value, Undefined standing for null.
safeJSONParse(str) ==
    The({ IF r.ok THEN r.v ELSE Undefined : r \in {JsonParse(str)} })

\* The scan of isCompleteJSON from position i on.
RECURSIVE BalanceScan(_, _, _, _, _, _)
BalanceScan(s, i, braceCount, bracketCount, inString, escaped) ==
    IF i > Len(s) THEN braceCount = 0 /\ bracketCount = 0
    ELSE IF escaped THEN BalanceScan(s, i + 1, braceCount, bracketCount, inString, FALSE)
    ELSE IF s[i] = BS THEN BalanceScan(s, i + 1, braceCount, bracketCount, inString, TRUE)
    ELSE IF s[i] = Q THEN BalanceScan(s, i + 1, braceCount, bracketCount, ~inString, FALSE)
    ELSE IF inString THEN BalanceScan(s, i + 1, braceCount, bracketCount, inString, FALSE)
    ELSE BalanceScan(s, i + 1,
                     braceCount + (IF s[i] = "{" THEN 1 ELSE IF s[i] = "}" THEN -1 ELSE 0),
                     bracketCount + (IF s[i] = "[" THEN 1 ELSE IF s[i] = "]" THEN -1 ELSE 0),
                     inString, FALSE)

isCompleteJSON(str) ==
    \E trimmed \in {Trim(str)} :
        /\ trimmed # <<>>
        /\ BalanceScan(trimmed, 1, 0, 0, FALSE, FALSE)

\* A processLine that takes every message for the answer to request 1.
MessageId_first(message) == 1

\* The key of messageHandlers a parsed message addresses: its numeric id when
\* that is truthy, 0 (no key) otherwise.
MessageId(message) ==
    The({ IF id.t = "num" /\ Truthy(id) THEN id.n ELSE 0 : id \in {Get(message, "id")} })

\* processLine calls no handler.
NoCall == [id |-> 0, message |-> Undefined]

\* processLine(line) against the table `handlers`: the id whose handler is
\* taken out of the table and called, and the message it is called with;
\* NoCall when the line is skipped or matches no entry.
processLine(line, handlers) ==
    The({ IF trimmedLine = <<>> THEN NoCall
          ELSE IF ~isValidJSON(trimmedLine) THEN NoCall
          ELSE The({ IF ~Truthy(message) THEN NoCall
                     ELSE The({ IF id \in handlers
                                THEN [id |-> id, message |-> message]
                                ELSE NoCall :
                                id \in {MessageId(message)} }) :
                     message \in {safeJSONParse(trimmedLine)} }) :
          trimmedLine \in {Trim(line)} })

\* The calls processLine makes for `lines` in order, each against the table
\* the calls before it left: a sequence of [id, message].
RECURSIVE ProcessLines(_, _)
ProcessLines(lines, handlers) ==
    IF lines = <<>> THEN <<>>
    ELSE The({ (IF call.id = 0 THEN <<>> ELSE <<call>>)
               \o ProcessLines(Tail(lines), handlers \ {call.id}) :
               call \in {processLine(Head(lines), handlers)} })

\* A handleMessage that splits each chunk on its own and keeps no partial
\* line for the next one.
handleMessage_noCarry(messageBuffer, handlers, data) ==
    [ messageBuffer |-> <<>>, calls |-> ProcessLines(Split(data), handlers) ]

\* handleMessage(data) on a buffer and a table: the buffer left and the
\* handler calls made, in order.
handleMessage(messageBuffer, handlers, data) ==
    The({ The({ [ messageBuffer |-> IF flush THEN <<>> ELSE lines[Len(lines)],
                  calls |-> ProcessLines(IF flush THEN lines
                                         ELSE SubSeq(lines, 1, Len(lines) - 1),
                                         handlers) ] :
                flush \in {Trim(lines[Len(lines)]) # <<>> /\ isCompleteJSON(lines[Len(lines)])} }) :
          lines \in {Split(messageBuffer \o data)} })

\* ------------------------------------------------------------------------
\* State
\* ------------------------------------------------------------------------

VARIABLES
    transports,   \* every McpClientTransport made so far, by instance number
    promises,     \* the promises send() has returned, by handle
    child,        \* the child process behind each transport: what it has read
                  \* from stdin, what it has written to stdout and is not yet
                  \* read, how many lines it has written
    tools,        \* McpClientManager.tools: tool name -> toolInfo
    chain,        \* one invocation of the mcp_chain tool: where its handler
                  \* and executeChain stand, what they have called and returned
    subst,        \* one call of ChainExecutor.processToolArgs: its arguments
                  \* and its outcome
    config,       \* McpConfigService.config: null until loadConfig
    clients,      \* McpClientManager.clients: server key -> client
    upstream      \* the upstream server: its init, the handlers of
                  \* discover_tools and chainable_tools, the discovery pass
                  \* in progress and the passes done

\* The state of the configuration, of the manager's client table and of
\* the upstream server.
hostVars == <<config, clients, upstream>>

\* The state of the manager and of the chain executor.
chainVars == <<tools, chain, subst, hostVars>>

\* Bounds of the model.
MaxTransports == 1
MaxSends == 2
MaxLines == 2

TIds == 1..MaxTransports

\* new McpClientTransport(command, args, env): the constructor's fields, and
\* the bookkeeping of what send() has handed out.
\*   timers        ids whose setTimeout is armed
\*   writes        ids whose stdin.write callback has not run yet
\*   promiseOf     id -> handle of the promise send() returned for it
\*   requests      id -> the message send() was called with (the timer's
\*                 closure keeps it for its error text)
\*   assigned      the ids in the order send() assigned them
\*   command       the program the transport spawns
NewTransport ==
    [ process |-> FALSE, messageHandlers |-> {}, nextId |-> 1, connected |-> FALSE,
      messageBuffer |-> <<>>, timers |-> {}, writes |-> {},
      promiseOf |-> <<>>, requests |-> <<>>, assigned |-> <<>>, made |-> FALSE,
      command |-> "" ]

\* start(): spawn, attach the listeners, connected = true.
start(tr) == [tr EXCEPT !.process = TRUE, !.connected = TRUE, !.made = TRUE]

\* The child behind a transport.
\*   inbox     the requests written to its stdin; read once the write is done
\*   pipe      what it has written to stdout and the transport has not read
\*   unread    for each of its writes still (partly) in the pipe: the id it
\*             answers (0: none), its style, the tokens left in the pipe
\*   answered  the [id, style] of the answers it has written
\*   lines     how many writes it has made
\*   cut       the ids of the answers a chunk of stdout data ended inside
NewChild ==
    [inbox |-> <<>>, pipe |-> <<>>, lines |-> 0, unread |-> <<>>, answered |-> {}, cut |-> {}]

\* unread after the transport has taken n more tokens from the pipe.
RECURSIVE Consume(_, _)
Consume(unread, n) ==
    IF unread = <<>> \/ n = 0 THEN unread
    ELSE IF n >= Head(unread).left THEN Consume(Tail(unread), n - Head(unread).left)
    ELSE <<[Head(unread) EXCEPT !.left = @ - n]>> \o Tail(unread)

\* The id of the answer that a chunk of n tokens ends inside, as a set.
RECURSIVE CutBy(_, _)
CutBy(unread, n) ==
    IF unread = <<>> \/ n = 0 THEN {}
    ELSE IF n >= Head(unread).left THEN CutBy(Tail(unread), n - Head(unread).left)
    ELSE {Head(unread).id} \ {0}

\* A promise: pending, or settled by the first resolve/reject called on it.
\*   kind   "" while pending; "result" when resolved; for a rejection
\*          "remote", "timeout", "write", "serialize" or "notconnected"
\*   v      the response resolved with, or the rejection's message
Pending == [st |-> "pending", kind |-> "", v |-> Undefined]
Resolved(v) == [st |-> "resolved", kind |-> "result", v |-> v]
Rejected(kind, v) == [st |-> "rejected", kind |-> kind, v |-> v]

\* resolve(..)/reject(..) on promise p: only the first call settles it.
Settle(ps, p, outcome) ==
    IF ps[p].st = "pending" THEN [ps EXCEPT ![p] = outcome] ELSE ps

\* JSON.stringify(message) of a request after send() has set message.id.
RequestText(message, id) ==
    JsonStringify(JObj(<< [k |-> <<"jsonrpc">>, v |-> JStr(<<"2", ".", "0">>)],
                          [k |-> <<"method">>, v |-> JStr(<<message.method>>)],
                          [k |-> <<"params">>, v |-> message.params],
                          [k |-> <<"id">>, v |-> JNum(id)] >>))

\* The messages of the errors send() rejects with.  The timeout's message
\* quotes the request (its first 100 characters, which hold the method and
\* the tool's name; here all of it).
NotConnectedError == <<"transport-not-connected">>
TimeoutError(message, id) == <<"send-timeout", ":", SP>> \o RequestText(message, id)
WriteError == <<"write-failed", ":", SP, "EPIPE">>
SerializeError == <<"serialize-failed", ":", SP, "circular">>
UnknownError == <<"unknown-error">>

\* The handler send() installs, called with a response: clearTimeout is
\* done by the caller; here the outcome it gives the promise.
HandlerOutcome(response) ==
    The({ IF ~Truthy(error) THEN Resolved(response)
          ELSE The({ Rejected("remote", IF Truthy(m) THEN m ELSE JStr(UnknownError)) :
                     m \in {Get(error, "message")} }) :
          error \in {Get(response, "error")} })

\* A send() that numbers a request by the size of the pending table.
sendId_byTableSize(tr) ==
    [id |-> Cardinality(tr.messageHandlers) + 1, nextId |-> tr.nextId + 1]

\* send(): the id the call takes and the value of nextId it leaves.
sendId(tr) == [id |-> tr.nextId, nextId |-> tr.nextId + 1]

\* send(message) on a connected transport, p the promise it returns.  throws
\* is TRUE when JSON.stringify or stdin.write throws: the catch branch.
send(tr, message, p, throws) ==
    The({ IF throws
          THEN [tr EXCEPT !.nextId = a.nextId,
                          !.promiseOf = (a.id :> p) @@ @,
                          !.requests = (a.id :> message) @@ @,
                          !.assigned = Append(@, a.id)]
          ELSE [tr EXCEPT !.nextId = a.nextId,
                          !.promiseOf = (a.id :> p) @@ @,
                          !.requests = (a.id :> message) @@ @,
                          !.assigned = Append(@, a.id),
                          !.timers = @ \cup {a.id},
                          !.messageHandlers = @ \cup {a.id},
                          !.writes = @ \cup {a.id}] :
          a \in {sendId(tr)} })


\* A close() that leaves the message buffer as it is.
close_keepsBuffer(tr) ==
    [tr EXCEPT !.process = FALSE, !.connected = FALSE, !.messageHandlers = {}]

\* close()
close(tr) ==
    [tr EXCEPT !.process = FALSE, !.connected = FALSE, !.messageHandlers = {},
               !.messageBuffer = <<>>]

\* The promises after the handler calls `calls` of one handleMessage.
RECURSIVE SettleCalls(_, _, _)
SettleCalls(ps, tr, calls) ==
    IF calls = <<>> THEN ps
    ELSE SettleCalls(Settle(ps, tr.promiseOf[Head(calls).id],
                            HandlerOutcome(Head(calls).message)),
                     tr, Tail(calls))

CallIds(calls) == {calls[i].id : i \in 1..Len(calls)}

\* A response line as a server writes it: {"jsonrpc":"2.0","id":N,...}.
ResultLine(id, result) ==
    JsonStringify(JObj(<< [k |-> <<"id">>, v |-> JNum(id)],
                          [k |-> <<"result">>, v |-> result] >>))

ErrorLine(id, code, message) ==
    JsonStringify(JObj(<< [k |-> <<"id">>, v |-> JNum(id)],
                          [k |-> <<"error">>,
                           v |-> JObj(<< [k |-> <<"code">>, v |-> JNum(code)],
                                         [k |-> <<"message">>, v |-> JStr(message)] >>)] >>))

\* No mcp_chain invocation, no processToolArgs call.
NoChain == [pc |-> "none"]
NoSubst == [done |-> FALSE]

\* No upstream server.
NoUpstream == [pc |-> "none"]

\* ------------------------------------------------------------------------
\* The transport's steps
\* ------------------------------------------------------------------------

\* transports[t].send(message) is called; the promise it returns is the next
\* entry of promises.
DoSend(t, message, throws) ==
    \E tr \in {transports[t]} :
        IF ~tr.connected \/ ~tr.process
        THEN /\ promises' = Append(promises, Rejected("notconnected", JStr(NotConnectedError)))
             /\ UNCHANGED <<transports, child>>
        ELSE /\ transports' = [transports EXCEPT
                                  ![t] = send(tr, message, Len(promises) + 1, throws)]
             /\ promises' = Append(promises,
                                   IF throws THEN Rejected("serialize", JStr(SerializeError))
                                   ELSE Pending)
             /\ child' = IF throws THEN child
                         ELSE [child EXCEPT ![t].inbox =
                                  Append(@, [id |-> tr.nextId, message |-> message,
                                             read |-> FALSE])]

\* A caller invokes send(message) on transport t.
Send(t, message, throws) ==
    /\ transports[t].made
    /\ Len(promises) < MaxSends
    /\ DoSend(t, message, throws)
    /\ UNCHANGED chainVars

\* A write callback that, on an error, rejects and removes the entry but
\* leaves the timeout armed.
WriteCallback_keepsTimer(t, id, error) ==
    /\ id \in transports[t].writes
    /\ IF error
       THEN /\ transports' = [transports EXCEPT ![t].writes = @ \ {id},
                                                ![t].messageHandlers = @ \ {id}]
            /\ promises' = Settle(promises, transports[t].promiseOf[id],
                                  Rejected("write", JStr(WriteError)))
            /\ child' = [child EXCEPT ![t].inbox =
                            SelectSeq(@, LAMBDA m : m.id # id)]
       ELSE /\ transports' = [transports EXCEPT ![t].writes = @ \ {id}]
            /\ child' = [child EXCEPT ![t].inbox =
                            [i \in DOMAIN @ |-> IF @[i].id = id
                                                THEN [@[i] EXCEPT !.read = TRUE]
                                                ELSE @[i]]]
            /\ UNCHANGED promises
    /\ UNCHANGED chainVars

\* The callback of stdin.write for request id runs, with or without an error.
WriteCallback(t, id, error) ==
    /\ id \in transports[t].writes
    /\ IF error
       THEN /\ transports' = [transports EXCEPT ![t].writes = @ \ {id},
                                                ![t].timers = @ \ {id},
                                                ![t].messageHandlers = @ \ {id}]
            /\ promises' = Settle(promises, transports[t].promiseOf[id],
                                  Rejected("write", JStr(WriteError)))
            /\ child' = [child EXCEPT ![t].inbox =
                            SelectSeq(@, LAMBDA m : m.id # id)]
       ELSE /\ transports' = [transports EXCEPT ![t].writes = @ \ {id}]
            /\ child' = [child EXCEPT ![t].inbox =
                            [i \in DOMAIN @ |-> IF @[i].id = id
                                                THEN [@[i] EXCEPT !.read = TRUE]
                                                ELSE @[i]]]
            /\ UNCHANGED promises
    /\ UNCHANGED chainVars

\* A timeout that rejects and leaves the entry in the pending table.
TimerFires_keepsEntry(t, id) ==
    /\ id \in transports[t].timers
    /\ transports' = [transports EXCEPT ![t].timers = @ \ {id}]
    /\ promises' = IF id \in transports[t].messageHandlers
                   THEN Settle(promises, transports[t].promiseOf[id],
                               Rejected("timeout",
                                        JStr(TimeoutError(transports[t].requests[id], id))))
                   ELSE promises
    /\ UNCHANGED child
    /\ UNCHANGED chainVars

\* The timeout armed by send() for request id expires.
TimerFires(t, id) ==
    /\ id \in transports[t].timers
    /\ transports' = [transports EXCEPT ![t].timers = @ \ {id},
                                        ![t].messageHandlers = @ \ {id}]
    /\ promises' = IF id \in transports[t].messageHandlers
                   THEN Settle(promises, transports[t].promiseOf[id],
                               Rejected("timeout",
                                        JStr(TimeoutError(transports[t].requests[id], id))))
                   ELSE promises
    /\ UNCHANGED child
    /\ UNCHANGED chainVars

\* The child writes `text` and a newline to its stdout; w tells what it is:
\* [id, style, text], id the request it answers (0: none).  It writes max
\* lines at most.
ChildWritesUpTo(t, w, max) ==
    /\ transports[t].process
    /\ child[t].lines < max
    /\ child' = [child EXCEPT
                    ![t].pipe = @ \o w.text \o <<NL>>,
                    ![t].lines = @ + 1,
                    ![t].unread = Append(@, [id |-> w.id, style |-> w.style,
                                             left |-> Len(w.text) + 1]),
                    ![t].answered = IF w.id = 0 THEN @
                                    ELSE @ \cup {[id |-> w.id, style |-> w.style]}]
    /\ UNCHANGED <<transports, promises>>
    /\ UNCHANGED chainVars

\* The same, for a child that writes MaxLines lines at most.
ChildWrites(t, w) == ChildWritesUpTo(t, w, MaxLines)

\* stdout's 'data' event with the first n tokens the child has written.
StdoutData(t, n) ==
    /\ transports[t].made
    /\ n \in 1..Len(child[t].pipe)
    /\ \E tr \in {transports[t]} :
       \E h \in {handleMessage(tr.messageBuffer, tr.messageHandlers, Prefix(child[t].pipe, n))} :
           /\ transports' = [transports EXCEPT
                                ![t].messageBuffer = h.messageBuffer,
                                ![t].messageHandlers = @ \ CallIds(h.calls),
                                ![t].timers = @ \ CallIds(h.calls)]
           /\ promises' = SettleCalls(promises, tr, h.calls)
    /\ child' = [child EXCEPT ![t].pipe = Suffix(@, n + 1),
                              ![t].unread = Consume(@, n),
                              ![t].cut = @ \cup CutBy(child[t].unread, n)]
    /\ UNCHANGED chainVars

\* close() on transport t.
Close(t) ==
    /\ transports[t].made
    /\ transports' = [transports EXCEPT ![t] = close(@)]
    /\ UNCHANGED <<promises, child>>
    /\ UNCHANGED chainVars

vars == <<transports, promises, child, tools, chain, subst, config, clients, upstream>>

\* ------------------------------------------------------------------------
\* SpecTransport: one started transport, its callers, its timers and its
\* child, which answers with result and error frames in any order, also
\* late, twice, or for ids nobody waits for.  Data arrives a line at a time.
\* ------------------------------------------------------------------------

PingMessage == [method |-> "tools/list", params |-> JObj(<<>>)]

InitTransport ==
    /\ transports = [t \in TIds |-> IF t = 1 THEN start(NewTransport) ELSE NewTransport]
    /\ promises = <<>>
    /\ child = [t \in TIds |-> NewChild]
    /\ tools = <<>>
    /\ chain = NoChain
    /\ subst = NoSubst
    /\ config = JNull
    /\ clients = <<>>
    /\ upstream = NoUpstream

\* The ids of the requests the child of transport t has read from its stdin.
ReadIds(t) == {child[t].inbox[i].id : i \in {j \in DOMAIN child[t].inbox : child[t].inbox[j].read}}

\* What the child may write: an answer, a result or an error, to a request
\* it has read (as often and as late as it likes).
TransportLines(t) ==
    {[id |-> id, style |-> "result", text |-> ResultLine(id, JObj(<<>>))] : id \in ReadIds(t)}
        \cup {[id |-> id, style |-> "error", text |-> ErrorLine(id, 7, <<"boom">>)] :
                 id \in ReadIds(t)}

NextTransport ==
    \/ \E t \in TIds, throws \in BOOLEAN : Send(t, PingMessage, throws)
    \/ \E t \in TIds, id \in 1..MaxSends, error \in BOOLEAN : WriteCallback(t, id, error)
    \/ \E t \in TIds, id \in 1..MaxSends : TimerFires(t, id)
    \/ \E t \in TIds : \E w \in TransportLines(t) : ChildWrites(t, w)
    \/ \E t \in TIds : StdoutData(t, Len(child[t].pipe))
    \/ \E t \in TIds : Close(t)

SpecTransport == InitTransport /\ [][NextTransport]_vars

\* The promise of request id of transport t.
PromiseOf(t, id) == promises[transports[t].promiseOf[id]]

\* Nothing can settle request id of transport t any more: it has no entry in
\* the pending table (a frame and the timer both look there) and its write
\* callback has run.
LifeOver(t, id) ==
    /\ id \notin transports[t].messageHandlers
    /\ id \notin transports[t].writes

\* C1: every request id send() allocated gets exactly one outcome (resolved
\* by its frame, rejected by its timeout, rejected by close): once nothing
\* can settle a request any more, its promise is settled.
C1_ExactlyOneOutcome ==
    \A t \in TIds : \A i \in 1..Len(transports[t].assigned) :
        LET id == transports[t].assigned[i]
        IN  LifeOver(t, id) => PromiseOf(t, id).st # "pending"

\* C2: the ids successive send() calls assign on one transport are positive
\* and strictly increasing, so none is assigned twice.
C2_IdsStrictlyIncreasing ==
    \A t \in TIds : \A i \in 1..Len(transports[t].assigned) :
        /\ transports[t].assigned[i] > 0
        /\ i > 1 => transports[t].assigned[i] > transports[t].assigned[i - 1]

\* A second id was assigned after the first request had timed out, and the
\* second request was answered.
C2_Witness ==
    /\ Len(transports[1].assigned) = 2
    /\ Len(promises) = 2
    /\ promises[1].kind = "timeout"
    /\ promises[2].kind = "result"

\* ------------------------------------------------------------------------
\* SpecFraming: one started transport whose child answers each request it
\* has read once, on one line or pretty-printed over several, between log
\* lines, HTML and empty lines; stdout delivers the stream cut anywhere.
\* ------------------------------------------------------------------------

\* JSON.stringify(response, null, 2) of {"id": N, "result": {}}.
PrettyResultLines(id) ==
    <<"{", NL,
      SP, SP, Q, "id", Q, ":", SP>> \o NumDigits(id) \o <<",", NL,
      SP, SP, Q, "result", Q, ":", SP, "{", "}", NL,
      "}">>

NoiseLines ==
    { <<"[", "INFO", "]", SP, "starting">>,
      <<"<!DOCTYPE", SP, "html", ">">>,
      <<>> }

\* The ids the child has read and not answered yet.
Unanswered(t) == {id \in ReadIds(t) : \A a \in child[t].answered : a.id # id}

FramingWrites(t) ==
    {[id |-> id, style |-> "line", text |-> ResultLine(id, JObj(<<>>))] : id \in Unanswered(t)}
        \cup {[id |-> id, style |-> "pretty", text |-> PrettyResultLines(id)] :
                 id \in Unanswered(t)}
        \cup {[id |-> 0, style |-> "noise", text |-> l] : l \in NoiseLines}

NextFraming ==
    \/ \E t \in TIds : Send(t, PingMessage, FALSE)
    \/ \E t \in TIds, id \in 1..MaxSends : WriteCallback(t, id, FALSE)
    \/ \E t \in TIds : \E w \in FramingWrites(t) : ChildWrites(t, w)
    \/ \E t \in TIds : \E n \in 1..Len(child[t].pipe) : StdoutData(t, n)

SpecFraming == InitTransport /\ [][NextFraming]_vars

\* The transport has read the whole answer of the given style to request id.
ReadWhole(t, id, style) ==
    /\ [id |-> id, style |-> style] \in child[t].answered
    /\ \A i \in 1..Len(child[t].unread) : child[t].unread[i].id # id

\* Request id of transport t was resolved with the response carrying its id.
Delivered(t, id) ==
    /\ PromiseOf(t, id).st = "resolved"
    /\ PromiseOf(t, id).v = JsonParse(ResultLine(id, JObj(<<>>))).v

\* C3: whatever lines surround a single-line response frame and however the
\* stream is cut into chunks, once the transport has read the frame its
\* response has been delivered to the continuation registered for its id,
\* and no continuation is given a response that carries another id.
C3_FramingTolerance ==
    \A t \in TIds : \A id \in 1..Len(transports[t].assigned) :
        /\ ReadWhole(t, id, "line") => Delivered(t, id)
        /\ PromiseOf(t, id).st = "resolved" => MessageId(PromiseOf(t, id).v) = id

\* A single-line frame written behind another line arrived cut in two by a
\* chunk boundary and was delivered.
C3_Witness ==
    /\ ReadWhole(1, 1, "line")
    /\ 1 \in child[1].cut
    /\ child[1].lines >= 2
    /\ Delivered(1, 1)

\* C4: a response written pretty-printed over several lines is delivered to
\* its pending continuation once the transport has read all of it.
C4_PrettyPrintedDelivered ==
    \A t \in TIds : \A id \in 1..Len(transports[t].assigned) :
        ReadWhole(t, id, "pretty") => Delivered(t, id)

\* ------------------------------------------------------------------------
\* ChainExecutor: the arguments of a step
\* ------------------------------------------------------------------------

\* The sentinel a template names the previous step's result by.
CHAIN_RESULT == "CHAIN_RESULT"

\* String(v) of a value that is no string.
RECURSIVE JsString(_)
JsString(v) ==
    CASE v.t = "str" -> v.s
      [] v.t = "num" -> NumDigits(v.n)
      [] v.t = "obj" -> <<"[object Object]">>
      [] v.t = "arr" -> IF v.a = <<>> THEN <<>>
                        ELSE JsString(Head(v.a)) \o
                             (IF Len(v.a) > 1 THEN <<",">> \o JsString(JArr(Tail(v.a)))
                              ELSE <<>>)
      [] OTHER -> <<v.t>>

\* processToolArgs, the isJson test: a string that is no JSON text gets a
\* backslash before each double quote; every other value is kept.
ProcessedResult(chainResult) ==
    IF chainResult.t # "str" THEN chainResult
    ELSE IF JsonParse(chainResult.s).ok THEN chainResult
    ELSE JStr(EscapeQuotes(chainResult.s))

\* processToolArgs, the text handed to the final JSON.parse.
FinalArgsText(toolArgs, pr) ==
    IF pr.t # "str" THEN ReplaceFirst(toolArgs, <<CHAIN_RESULT>>, JsString(pr))
    ELSE IF Includes(toolArgs, <<Q, CHAIN_RESULT, Q>>)
         THEN ReplaceFirst(toolArgs, <<Q, CHAIN_RESULT, Q>>, <<Q>> \o pr.s \o <<Q>>)
    ELSE ReplaceFirst(toolArgs, <<CHAIN_RESULT>>, pr.s)

\* processToolArgs(toolArgs, chainResult): ok is FALSE where it throws, v the
\* argument object otherwise.
processToolArgs(toolArgs, chainResult) ==
    IF chainResult.t \in {"null", "undefined"} THEN JsonParse(toolArgs)
    ELSE JsonParse(FinalArgsText(toolArgs, ProcessedResult(chainResult)))

\* ------------------------------------------------------------------------
\* ChainExecutor: inputPath and outputPath
\* ------------------------------------------------------------------------

maxDepth == 10

\* deepUnescape(str, depth): the text parsed; or parsed as a string once it is
\* put between quotes with its own quotes escaped; or, one layer of
\* backslashes removed, tried again; or the text itself.
RECURSIVE deepUnescape(_, _)
deepUnescape(str, depth) ==
    The({ IF direct.ok THEN direct.v
          ELSE The({ IF quoted.ok THEN quoted.v
                     ELSE IF Includes(str, <<BS>>) /\ depth < maxDepth
                          THEN deepUnescape(StripEscapes(str), depth + 1)
                     ELSE JStr(str) :
                     quoted \in {JsonParse(<<Q>> \o EscapeQuotes(str) \o <<Q>>)} }) :
          direct \in {JsonParse(str)} })

\* What one selector of a JSONPath matches in the value v, as a sequence:
\* <<".", k>> the member k of an object, <<"[", n, "]">> the element n (from
\* 0) of an array, <<"[", "*", "]">> every element of an array.
Child(v, sel) ==
    IF sel[1] = "."
    THEN (IF v.t = "obj" /\ (\E i \in 1..Len(v.m) : v.m[i].k = <<sel[2]>>)
          THEN <<Get(v, sel[2])>> ELSE <<>>)
    ELSE IF v.t # "arr" THEN <<>>
    ELSE IF sel[2] = "*" THEN v.a
    ELSE IF DigitVal(sel[2]) < Len(v.a) THEN <<v.a[DigitVal(sel[2]) + 1]>>
    ELSE <<>>

\* The matches of the selectors of path in the values vs, in document order.
RECURSIVE Trace(_, _)
Trace(path, vs) ==
    IF path = <<>> \/ vs = <<>> THEN vs
    ELSE The({ Trace(SubSeq(path, n + 1, Len(path)), Child(Head(vs), SubSeq(path, 1, n)))
               \o (IF Len(vs) > 1
                   THEN Trace(path, Tail(vs)) ELSE <<>>) :
               n \in {IF path[1] = "." THEN 2 ELSE 3} })

\* JSONPath({path, json}) of jsonpath-plus for a path $ followed by
\* selectors and a json that is an object or an array: the array of the
\* values the path matches.
JSONPath(path, json) == JArr(Trace(Tail(path), <<json>>))

\* applyJsonPath, lines 66 to 69: the matches, a single one taken out of
\* its array.
Extract(jsonData, jsonPath) ==
    The({ IF Len(extracted.a) = 1 THEN extracted.a[1] ELSE extracted :
          extracted \in {JSONPath(jsonPath, jsonData)} })

\* applyJsonPath(data, jsonPath) for a text: it is parsed, or what follows
\* its first { is handed to deepUnescape; where what that leaves is a text
\* that does not parse, the catch returns it.
applyJsonPath(data, jsonPath) ==
    The({ IF parsed.ok THEN Extract(parsed.v, jsonPath)
          ELSE The({ IF d.t # "str" THEN Extract(d, jsonPath)
                     ELSE The({ IF again.ok THEN Extract(again.v, jsonPath) ELSE d :
                                again \in {JsonParse(d.s)} }) :
                     d \in {IF Includes(data.s, <<"{">>)
                            THEN deepUnescape(Suffix(data.s, IndexOf(data.s, <<"{">>)), 0)
                            ELSE data} }) :
          parsed \in {JsonParse(data.s)} })

\* executeChain, lines 138 to 148: what step i hands to processToolArgs.
processedResult(step, i, result) ==
    IF Truthy(step.inputPath) /\ i > 0 /\ Truthy(result)
    THEN The({ IF r.t \in {"obj", "arr"} THEN JStr(JsonStringify(r)) ELSE r :
               r \in {applyJsonPath(result, step.inputPath.s)} })
    ELSE result

\* An outputPath whose result is left as it is where it is no container.
resultOf_scalarKept(step, text) ==
    IF Truthy(step.outputPath)
    THEN The({ IF r.t \in {"obj", "arr"} THEN JStr(JsonStringify(r)) ELSE r :
               r \in {applyJsonPath(text, step.outputPath.s)} })
    ELSE text

\* executeChain, lines 168 to 175: result after a step that returned text.
resultOf(step, text) ==
    IF Truthy(step.outputPath)
    THEN JStr(JsonStringify(applyJsonPath(text, step.outputPath.s)))
    ELSE text

\* ------------------------------------------------------------------------
\* SpecArgs: the arguments of a step made from its template, its inputPath
\* and the result of the step before
\* ------------------------------------------------------------------------

\* A string member "k": "v" and a member whose value is the given text.
Member(k, valueText) == <<Q, k, Q, ":", SP>> \o valueText

\* {"xml": CHAIN_RESULT, "q": "//h1"}
XPathTemplate ==
    <<"{">> \o Member("xml", <<CHAIN_RESULT>>) \o <<",", SP>>
            \o Member("q", <<Q, "//h1", Q>>) \o <<"}">>

\* {"n": CHAIN_RESULT}
NTemplate == <<"{">> \o Member("n", <<CHAIN_RESULT>>) \o <<"}">>

\* {"items": ["CHAIN_RESULT"]}
ItemsTemplate == <<"{">> \o Member("items", <<"[", Q, CHAIN_RESULT, Q, "]">>) \o <<"}">>

Templates ==
    { XPathTemplate,
      NTemplate,
      <<"{">> \o Member("xml", <<Q, CHAIN_RESULT, Q>>) \o <<"}">>,
      ItemsTemplate,
      <<"{">> \o Member("items", <<"[", CHAIN_RESULT, "]">>) \o <<"}">>,
      <<"{">> \o Member("a", <<CHAIN_RESULT>>) \o <<",", SP>>
              \o Member("b", <<Q, CHAIN_RESULT, Q>>) \o <<"}">>,
      <<"{">> \o Member("url", <<Q, "x", Q>>) \o <<"}">>,
      <<CHAIN_RESULT>>,
      <<"{">> \o Member("xml", <<CHAIN_RESULT>>) }

\* <html>..</html>
Html == <<"<html", ">", "..", "</html>">>

\* {"count":3,"items":[{"id":7}],"name":"bob","none":null}
CountText ==
    <<"{", Q, "count", Q, ":", "3", ",", Q, "items", Q, ":", "[", "{", Q, "id", Q, ":",
      "7", "}", "]", ",", Q, "name", Q, ":", Q, "bob", Q, ",", Q, "none", Q, ":",
      "null", "}">>

\* The paths of the steps: a number, an element inside an array, a string,
\* null, an array, nothing.
Paths ==
    { <<"$", ".", "count">>, <<"$", ".", "items", "[", "0", "]", ".", "id">>,
      <<"$", ".", "name">>, <<"$", ".", "none">>, <<"$", ".", "items">>,
      <<"$", ".", "missing">> }

\* The texts a step can return: plain text, text with quotes, JSON text.
Texts ==
    { Html,
      <<"a">>,
      <<"say", SP, Q, "hi", Q>>,
      <<"C:", BS, "tmp">>,
      <<"{">> \o Member("count", <<"3">>) \o <<"}">>,
      <<"[", "1", ",", "2", "]">>,
      <<"3">>,
      <<Q, "a", Q>>,
      <<"true">>,
      <<"cost", SP, "$", "&">>,
      CountText,
      <<>> }

\* What processToolArgs is handed as chainResult: a text, or nothing.
Carries == {JStr(x) : x \in Texts} \cup {JNull, Undefined}

\* A step i > 0 of executeChain is about to run: result is what the step
\* before left, toolArgs and inputPath are the step's.
InitArgs ==
    /\ transports = [t \in TIds |-> NewTransport]
    /\ promises = <<>>
    /\ child = [t \in TIds |-> NewChild]
    /\ tools = <<>>
    /\ config = JNull
    /\ clients = <<>>
    /\ upstream = NoUpstream
    /\ chain = NoChain
    /\ subst \in {[toolArgs |-> a, inputPath |-> ip, result |-> c, chainResult |-> c,
                    done |-> FALSE, out |-> [ok |-> FALSE, v |-> Undefined]] :
                     a \in Templates, c \in Carries,
                     ip \in {Undefined} \cup {JStr(path) : path \in Paths}}

\* executeChain, lines 138 to 158, for a step i > 0: inputPath is applied to
\* result and processToolArgs called with what that gives.
ProcessToolArgs ==
    /\ ~subst.done
    /\ \E pr \in {processedResult(subst, 1, subst.result)} :
           subst' = [subst EXCEPT !.done = TRUE,
                                  !.chainResult = pr,
                                  !.out = processToolArgs(subst.toolArgs, pr)]
    /\ UNCHANGED <<transports, promises, child, tools, chain, hostVars>>

NextArgs == ProcessToolArgs

SpecArgs == InitArgs /\ [][NextArgs]_vars

\* The template is JSON once a value stands in the place of its sentinel,
\* which stands bare where a JSON value is expected.
ValueHole(toolArgs) ==
    /\ Includes(toolArgs, <<CHAIN_RESULT>>)
    /\ ~Includes(toolArgs, <<Q, CHAIN_RESULT, Q>>)
    /\ JsonParse(ReplaceFirst(toolArgs, <<CHAIN_RESULT>>, <<Q, "__CR__", Q>>)).ok

\* C5: when the template is valid JSON with the sentinel standing where a
\* value is expected, substituting the previous step's text and parsing
\* succeeds for every text (plain, with quotes, JSON); and the template
\* {"xml": CHAIN_RESULT, "q": "//h1"} with the text <html>..</html> gives the
\* argument object {"xml": "<html>..</html>", "q": "//h1"}.
C5_SentinelRoundTrip ==
    (subst.done /\ subst.chainResult.t = "str" /\ ValueHole(subst.toolArgs))
        => /\ subst.out.ok
           /\ (subst.toolArgs = XPathTemplate /\ subst.chainResult = JStr(Html))
                  => subst.out.v = JObj(<< [k |-> <<"xml">>, v |-> JStr(Html)],
                                           [k |-> <<"q">>, v |-> JStr(<<"//h1">>)] >>)

\* The text s with r, taken as it is, in the place of the first p.
Spliced(s, p, r) ==
    The({ IF i = 0 THEN s ELSE Prefix(s, i - 1) \o r \o Suffix(s, i + Len(p)) :
          i \in {IndexOf(s, p)} })

\* C12: when the carry is a string and the template has the sentinel inside
\* double quotes, the step's arguments are the template with that whole
\* quoted form replaced by the carry between double quotes; the carry a and
\* the template {"items":["CHAIN_RESULT"]} give {"items":["a"]}.
C12_QuotedSentinelReplaced ==
    (subst.done /\ subst.chainResult.t = "str"
                /\ Includes(subst.toolArgs, <<Q, CHAIN_RESULT, Q>>))
        => /\ subst.out = JsonParse(Spliced(subst.toolArgs, <<Q, CHAIN_RESULT, Q>>,
                                            <<Q>> \o subst.chainResult.s \o <<Q>>))
           /\ (subst.toolArgs = ItemsTemplate /\ subst.chainResult = JStr(<<"a">>))
                  => subst.out.v = JObj(<< [k |-> <<"items">>,
                                           v |-> JArr(<< JStr(<<"a">>) >>)] >>)

\* The JSONPath result for a text that is JSON, a single match unwrapped.
PathResult(text, path) == Extract(JsonParse(text).v, path)

\* The text is the JSON text of an object or of an array.
JsonContainer(text) == JsonParse(text).ok /\ JsonParse(text).v.t \in {"obj", "arr"}

\* C13: at a step k > 0 with an inputPath, a carry that is JSON text and a
\* template with the bare sentinel in the place of a value, the arguments
\* of the step are the template with its sentinel replaced by the JSONPath
\* result, a single match unwrapped: a scalar as that scalar, a container
\* as its JSON encoding (so the text {"count":3,...} with $.count and
\* {"n":CHAIN_RESULT} gives {"n":3}).
C13_InputPathSubstituted ==
    (/\ subst.done
     /\ subst.inputPath.t = "str"
     /\ subst.result.t = "str"
     /\ JsonContainer(subst.result.s)
     /\ ValueHole(subst.toolArgs))
        => /\ subst.out.ok
           /\ subst.out.v =
                  JsonParse(Spliced(subst.toolArgs, <<CHAIN_RESULT>>,
                                    JsonStringify(PathResult(subst.result.s,
                                                             subst.inputPath.s)))).v

\* ------------------------------------------------------------------------
\* McpClientManager: the tool registry and callTool
\* ------------------------------------------------------------------------

\* name.replace(/-/g, '_')
formatName(name) == [i \in 1..Len(name) |-> IF name[i] = "-" THEN "_" ELSE name[i]]

\* The client connectToServer has made for the server behind transport t:
\* its key in the configuration, the name it gave in its initialize answer,
\* the tools it listed.  Every server lists xpath, the first one also fetch.
Client(t) ==
    [ serverKey |-> <<"web", "-">> \o NumDigits(t),
      serverInfo |-> [name |-> <<"web", "-", "tools">>],
      tools |-> IF t = 1 THEN << <<"fetch">>, <<"xpath">> >> ELSE << <<"xpath">> >>,
      transport |-> t ]

\* A Map as the sequence of its entries [k, v], in insertion order.
\* Map.prototype.set: the value of an entry there is replaced where it
\* stands, a new entry goes to the end.
MapSet(m, k, v) ==
    IF \E i \in 1..Len(m) : m[i].k = k
    THEN [i \in 1..Len(m) |-> IF m[i].k = k THEN [k |-> k, v |-> v] ELSE m[i]]
    ELSE Append(m, [k |-> k, v |-> v])

\* The keys of a Map.
Keys(m) == {m[i].k : i \in 1..Len(m)}

\* A registerToolsFromClient that does not set the tool's bare name.
RegisterTool_qualifiedOnly(ts, client, n) ==
    The({ MapSet(MapSet(ts, formatName(client.serverInfo.name) \o <<"_">>
                                \o client.tools[n], toolInfo),
                        formatName(client.serverKey) \o <<"_">> \o client.tools[n],
                        toolInfo) :
          toolInfo \in {[ name |-> client.serverInfo.name,
                          serverJsonKey |-> client.serverKey,
                          tool |-> [name |-> client.tools[n]],
                          client |-> client.transport ]} })

\* registerToolsFromClient, the body of its loop for client.tools[n]: three
\* keys set to the same toolInfo, a later set replacing an earlier one.
RegisterTool(ts, client, n) ==
    The({ MapSet(MapSet(MapSet(ts, formatName(client.serverInfo.name) \o <<"_">>
                                       \o client.tools[n], toolInfo),
                               formatName(client.serverKey) \o <<"_">> \o client.tools[n],
                               toolInfo),
                        client.tools[n], toolInfo) :
          toolInfo \in {[ name |-> client.serverInfo.name,
                          serverJsonKey |-> client.serverKey,
                          tool |-> [name |-> client.tools[n]],
                          client |-> client.transport ]} })

RECURSIVE registerToolsFromClient(_, _, _)
registerToolsFromClient(ts, client, n) ==
    IF n > Len(client.tools) THEN ts
    ELSE registerToolsFromClient(RegisterTool(ts, client, n), client, n + 1)

\* discoverTools, its loop over the configured servers from server t on.
RECURSIVE discoverTools(_, _)
discoverTools(ts, t) ==
    IF t > MaxTransports THEN ts
    ELSE discoverTools(registerToolsFromClient(ts, Client(t), 1), t + 1)

\* findTool(toolName): this.tools.get(toolName)
findTool(ts, toolName) ==
    IF toolName \in Keys(ts) THEN ts[CHOOSE i \in 1..Len(ts) : ts[i].k = toolName].v
    ELSE Undefined

\* The tools/call request callTool sends.
CallMessage(name, args) ==
    [ method |-> "tools/call",
      params |-> JObj(<< [k |-> <<"name">>, v |-> JStr(name)],
                         [k |-> <<"arguments">>, v |-> args] >>) ]

\* The messages of the errors callTool and executeChain throw.
ToolNotFound(toolName) == <<"tool-not-found", ":", SP>> \o toolName
CallFailed == <<"tool-call-failed">>
EmptyResponse(toolName) == <<"tool", SP>> \o toolName \o <<SP, "returned-empty-response">>
SyntaxError == <<"SyntaxError">>

\* callTool after its await: pr is the promise of send().  ok is FALSE where
\* callTool throws (message: the error's message), v what it returns.
callToolReturn(pr) ==
    IF pr.st = "rejected" THEN [ok |-> FALSE, v |-> Undefined, message |-> JsString(pr.v)]
    ELSE The({ IF Truthy(result) THEN [ok |-> TRUE, v |-> result, message |-> <<>>]
               ELSE The({ [ ok |-> FALSE, v |-> Undefined,
                            message |-> IF Truthy(m) THEN JsString(m) ELSE CallFailed ] :
                          m \in {Get(Get(pr.v, "error"), "message")} }) :
               result \in {Get(pr.v, "result")} })

\* ------------------------------------------------------------------------
\* ChainExecutor.validateChainConfig and the mcp_chain handler
\* ------------------------------------------------------------------------

\* A step of mcpPath; a field that is absent is Undefined.
Step(toolName, toolArgs) ==
    [ toolName |-> JStr(toolName), toolArgs |-> JStr(toolArgs),
      inputPath |-> Undefined, outputPath |-> Undefined ]

\* McpChainRequestSchema.parse(args) does not throw.
McpChainRequestSchema(mcpPath) ==
    \A n \in 1..Len(mcpPath) :
        /\ mcpPath[n].toolName.t = "str"
        /\ mcpPath[n].toolArgs.t = "str"
        /\ mcpPath[n].inputPath.t \in {"str", "undefined"}
        /\ mcpPath[n].outputPath.t \in {"str", "undefined"}

ZodError == <<"ZodError">>

\* The messages of the errors validateChainConfig throws.
PathEmpty == <<"chain-path-empty">>
StepError(n, what) == <<"step", SP>> \o NumDigits(n) \o <<SP>> \o what

\* validateChainConfig, the body of its loop for step n (1-based): <<>> when
\* the step passes, the message of the error thrown otherwise.
ValidateStep(ts, step, n) ==
    IF ~Truthy(step.toolName) THEN StepError(n, <<"missing-tool-name">>)
    ELSE IF ~Truthy(step.toolArgs) THEN StepError(n, <<"missing-tool-args">>)
    ELSE IF ~JsonParse(step.toolArgs.s).ok
         THEN StepError(n, <<"tool-args-not-json", ":", SP>> \o SyntaxError)
    ELSE IF findTool(ts, step.toolName.s) = Undefined
         THEN StepError(n, <<"tool-not-found", ":", SP>> \o step.toolName.s)
    ELSE <<>>

RECURSIVE ValidateFrom(_, _, _)
ValidateFrom(ts, mcpPath, n) ==
    IF n > Len(mcpPath) THEN [ok |-> TRUE, message |-> <<>>]
    ELSE The({ IF e # <<>> THEN [ok |-> FALSE, message |-> e]
               ELSE ValidateFrom(ts, mcpPath, n + 1) :
               e \in {ValidateStep(ts, mcpPath[n], n)} })

\* A validateChainConfig that checks the step it is about to run only.
validateChainConfig_firstStep(ts, mcpPath) ==
    IF mcpPath = <<>> THEN [ok |-> FALSE, message |-> PathEmpty]
    ELSE ValidateFrom(ts, <<mcpPath[1]>>, 1)

\* validateChainConfig(mcpPath): ok is FALSE where it throws.
validateChainConfig(ts, mcpPath) ==
    IF mcpPath = <<>> THEN [ok |-> FALSE, message |-> PathEmpty]
    ELSE ValidateFrom(ts, mcpPath, 1)

\* One invocation of mcp_chain.
\*   pc         "idle" before the call; "awaiting" while executeChain waits
\*              for callTool; "returned" once the handler is done
\*   mcpPath    args.mcpPath
\*   validated  validateChainConfig has returned normally
\*   i, result  executeChain's loop variable and its result
\*   awaiting   the promise of the send() callTool waits for (0: none)
\*   calls      the calls of callTool that reached send(), in order: the step
\*              (from 0), the tool name, the arguments, the value of result
\*              they were made from, the promise of send()
\*   carries    the values result was given, one per step that returned
\*   thrown     the error the handler caught: where it came from, the step
\*              and tool of executeChain's log line, its message
\*   failed     the handler has caught an error
\*   reply      what the handler gave back: kind "text" for a value it
\*              returned, "error" for an error it threw
Nothing == [where |-> "", step |-> 0, toolName |-> <<>>, message |-> <<>>]

NewChain ==
    [ pc |-> "idle", mcpPath |-> <<>>, validated |-> FALSE, i |-> 0, result |-> JNull,
      awaiting |-> 0, calls |-> <<>>, carries |-> <<>>, thrown |-> Nothing,
      failed |-> FALSE, reply |-> [kind |-> "none", text |-> Undefined] ]

ChainFailed == <<"mcp-chain-failed", ":", SP>>

\* A handler whose catch lets the error go on to the server.
handlerCatch_rethrow(ch, thrown) ==
    [ch EXCEPT !.pc = "returned", !.awaiting = 0, !.thrown = thrown, !.failed = TRUE,
               !.reply = [kind |-> "error", text |-> JStr(thrown.message)]]

\* The handler's catch: the error's message is returned behind a prefix.
handlerCatch(ch, thrown) ==
    [ch EXCEPT !.pc = "returned", !.awaiting = 0, !.thrown = thrown, !.failed = TRUE,
               !.reply = [kind |-> "text", text |-> JStr(ChainFailed \o thrown.message)]]

\* executeChain's catch in step ch.i (it logs the step and the tool and
\* throws the error on), then the handler's.
Throw(ch, message) ==
    /\ chain' = handlerCatch(ch, [ where |-> "step", step |-> ch.i,
                                   toolName |-> ch.mcpPath[ch.i + 1].toolName.s,
                                   message |-> message ])
    /\ UNCHANGED <<transports, promises, child>>

\* executeChain's loop body for step ch.i as far as its await: the arguments
\* are worked out (inputPath applied to result, the sentinel replaced) and
\* callTool called, which sends the request.
RunStep(ch) ==
    \E step \in {ch.mcpPath[ch.i + 1]} :
    \E finalArgs \in {IF ch.i = 0 THEN JsonParse(step.toolArgs.s)
                      ELSE processToolArgs(step.toolArgs.s,
                                           processedResult(step, ch.i, ch.result))} :
    \E toolInfo \in {findTool(tools, step.toolName.s)} :
        IF ~finalArgs.ok THEN Throw(ch, SyntaxError)
        ELSE IF toolInfo = Undefined THEN Throw(ch, ToolNotFound(step.toolName.s))
        ELSE /\ DoSend(toolInfo.client, CallMessage(toolInfo.tool.name, finalArgs.v), FALSE)
             /\ chain' = [ch EXCEPT !.pc = "awaiting",
                                    !.awaiting = Len(promises) + 1,
                                    !.calls = Append(@, [ step |-> ch.i,
                                                          toolName |-> step.toolName.s,
                                                          args |-> finalArgs.v,
                                                          carry |-> ch.result,
                                                          p |-> Len(promises) + 1 ])]

\* The handler of mcp_chain is called with {mcpPath}: it runs as far as the
\* first await of executeChain, or to its end when the request is refused.
McpChain(mcpPath) ==
    /\ chain.pc = "idle"
    /\ \E ch \in {[chain EXCEPT !.mcpPath = mcpPath]} :
       \E valid \in {IF McpChainRequestSchema(mcpPath)
                     THEN validateChainConfig(tools, mcpPath)
                     ELSE [ok |-> FALSE, message |-> ZodError]} :
           IF ~valid.ok
           THEN /\ chain' = handlerCatch(ch, [ where |-> "validate", step |-> 0,
                                               toolName |-> <<>>,
                                               message |-> valid.message ])
                /\ UNCHANGED <<transports, promises, child>>
           ELSE RunStep([ch EXCEPT !.validated = TRUE])
    /\ UNCHANGED <<tools, subst, hostVars>>

\* An await on promise pr goes on: pr is settled.
Returned_noAwait(pr) == TRUE

Returned(pr) == pr.st # "pending"

\* toolResponse.content.length and toolResponse.content[0].text
ContentLength(content) ==
    IF content.t = "arr" THEN Len(content.a)
    ELSE IF content.t = "str" THEN Len(content.s) ELSE 0

\* A result that takes the whole first content item.
FirstText_item(content) == IF content.t = "arr" THEN content.a[1] ELSE Undefined

FirstText(content) == IF content.t = "arr" THEN Get(content.a[1], "text") ELSE Undefined

\* The send() that callTool awaits is settled: callTool returns or throws,
\* executeChain takes the text of the response, outputPath applied to it, as
\* result and goes on with the next step, or returns, and then the handler
\* returns the text.
Resume ==
    /\ chain.pc = "awaiting"
    /\ Returned(promises[chain.awaiting])
    /\ \E toolResponse \in {callToolReturn(promises[chain.awaiting])} :
       \E content \in {Get(toolResponse.v, "content")} :
           IF ~toolResponse.ok THEN Throw(chain, toolResponse.message)
           ELSE IF ~(Truthy(content) /\ ContentLength(content) > 0)
                THEN Throw(chain, EmptyResponse(chain.mcpPath[chain.i + 1].toolName.s))
           ELSE \E result \in {resultOf(chain.mcpPath[chain.i + 1], FirstText(content))} :
                \E ch \in {[chain EXCEPT !.result = result,
                                         !.carries = Append(@, result),
                                         !.awaiting = 0]} :
                    IF ch.i + 1 < Len(ch.mcpPath)
                    THEN RunStep([ch EXCEPT !.i = @ + 1])
                    ELSE /\ chain' = [ch EXCEPT !.pc = "returned",
                                                !.reply = [kind |-> "text", text |-> ch.result]]
                         /\ UNCHANGED <<transports, promises, child>>
    /\ UNCHANGED <<tools, subst, hostVars>>

\* ------------------------------------------------------------------------
\* SpecChain: one invocation of mcp_chain after discovery.  A downstream server answers a call it
\* has read once: with a text, with no content, or with an error; or never.
\* ------------------------------------------------------------------------

FetchArgs == <<"{">> \o Member("url", <<Q, "x", Q>>) \o <<"}">>
QuotedTemplate == <<"{">> \o Member("xml", <<Q, CHAIN_RESULT, Q>>) \o <<"}">>
XPathKey == <<"web", "_", "tools", "_", "xpath">>

\* The README's chain: fetch a page, then hand it to xpath.
ReadmeChain == <<Step(<<"fetch">>, FetchArgs), Step(XPathKey, XPathTemplate)>>
UnknownToolChain == <<Step(<<"fetch">>, FetchArgs), Step(<<"nope">>, FetchArgs)>>

\* fetch, then a tool given {"xml": "CHAIN_RESULT"}: the first step with an
\* outputPath or the second with an inputPath; and fetch alone with an
\* outputPath.
PathChains ==
    { <<Step(<<"fetch">>, FetchArgs),
        [Step(XPathKey, QuotedTemplate) EXCEPT !.inputPath = JStr(path)]>> : path \in Paths }
        \cup { <<[Step(<<"fetch">>, FetchArgs) EXCEPT !.outputPath = JStr(path)],
                 Step(XPathKey, QuotedTemplate)>> : path \in Paths }
        \cup { <<[Step(<<"fetch">>, FetchArgs) EXCEPT !.outputPath = JStr(path)]>> :
                   path \in Paths }

ChainInputs ==
    { <<>>,
      <<Step(<<"fetch">>, FetchArgs)>>,
      ReadmeChain,
      <<Step(<<"fetch">>, FetchArgs), Step(XPathKey, QuotedTemplate)>>,
      UnknownToolChain,
      <<Step(<<>>, FetchArgs)>>,
      <<[Step(<<>>, FetchArgs) EXCEPT !.toolName = Undefined]>>,
      <<Step(<<"fetch">>, FetchArgs), Step(XPathKey, <<>>)>>,
      <<Step(<<"fetch">>, FetchArgs), [Step(XPathKey, <<>>) EXCEPT !.toolArgs = Undefined]>>,
      <<Step(<<"fetch">>, FetchArgs), Step(XPathKey, <<"{", Q, "xml", Q, ":">>)>> }
        \cup PathChains

\* A tools/call result with one text item, and one without content.
TextResult(text) ==
    JObj(<< [k |-> <<"content">>,
             v |-> JArr(<< JObj(<< [k |-> <<"type">>, v |-> JStr(<<"text">>)],
                                   [k |-> <<"text">>, v |-> JStr(text)] >>) >>)] >>)

EmptyResult == JObj(<< [k |-> <<"content">>, v |-> JArr(<<>>)] >>)

\* The texts of the answers: plain, with quotes, JSON, JSON behind a word.
ToolTexts ==
    { Html,
      <<"hello">>,
      <<"say", SP, Q, "hi", Q>>,
      CountText,
      <<"data:", SP, "{", Q, "count", Q, ":", "3", "}">> }

ChainLines(t) ==
    {[id |-> id, style |-> "result", text |-> ResultLine(id, TextResult(x))] :
        id \in Unanswered(t), x \in ToolTexts}
        \cup {[id |-> id, style |-> "empty", text |-> ResultLine(id, EmptyResult)] :
                 id \in Unanswered(t)}
        \cup {[id |-> id, style |-> "error", text |-> ErrorLine(id, 7, <<"boom">>)] :
                 id \in Unanswered(t)}

InitChain ==
    /\ transports = [t \in TIds |-> start(NewTransport)]
    /\ promises = <<>>
    /\ child = [t \in TIds |-> NewChild]
    /\ tools = discoverTools(<<>>, 1)
    /\ chain = NewChain
    /\ subst = NoSubst
    /\ config = [mcpServers |-> [t \in TIds |-> [key |-> Client(t).serverKey,
                                                 command |-> "web"]]]
    /\ clients = [t \in TIds |-> [k |-> Client(t).serverKey, v |-> Client(t)]]
    /\ upstream = NoUpstream

NextChain ==
    \/ \E mcpPath \in ChainInputs : McpChain(mcpPath)
    \/ Resume
    \/ \E t \in TIds, id \in 1..MaxSends, error \in BOOLEAN : WriteCallback(t, id, error)
    \/ \E t \in TIds, id \in 1..MaxSends : TimerFires(t, id)
    \/ \E t \in TIds : \E w \in ChainLines(t) : ChildWrites(t, w)
    \/ \E t \in TIds : StdoutData(t, Len(child[t].pipe))

SpecChain == InitChain /\ [][NextChain]_vars

\* The template parses as JSON once a placeholder string stands for its
\* sentinel (for the bare sentinel, or inside the quotes around it).
TemplateParses(toolArgs) ==
    \/ JsonParse(ReplaceFirst(toolArgs, <<CHAIN_RESULT>>, <<Q, "__CR__", Q>>)).ok
    \/ JsonParse(ReplaceFirst(toolArgs, <<CHAIN_RESULT>>, <<"__CR__">>)).ok

\* Every step names a tool of the registry and has such a template.
WellFormedChain(mcpPath) ==
    /\ mcpPath # <<>>
    /\ \A n \in 1..Len(mcpPath) :
           /\ mcpPath[n].toolName.t = "str"
           /\ mcpPath[n].toolName.s \in Keys(tools)
           /\ mcpPath[n].toolArgs.t = "str"
           /\ TemplateParses(mcpPath[n].toolArgs.s)

\* C6: validation accepts every chain whose steps each have a resolvable
\* toolName and a template that parses once the sentinel is replaced by a
\* placeholder string; a chain with the bare sentinel, as in the README,
\* passes validation and reaches execution.
C6_ValidationAcceptsTemplates ==
    (chain.pc # "idle" /\ WellFormedChain(chain.mcpPath))
        => (chain.validated /\ chain.calls # <<>>)

\* The chain is empty, or a step has no toolName or no toolArgs, or names a
\* tool the registry does not have.
RejectableChain(mcpPath) ==
    \/ mcpPath = <<>>
    \/ \E n \in 1..Len(mcpPath) :
           \/ mcpPath[n].toolName \in {Undefined, JStr(<<>>)}
           \/ mcpPath[n].toolArgs \in {Undefined, JStr(<<>>)}
           \/ mcpPath[n].toolName.s \notin Keys(tools)

\* C7: mcp_chain rejects a chain that is empty or has a step without
\* toolName or toolArgs or with a toolName the registry does not resolve,
\* and no tools/call is sent for any step of such a chain.
C7_RejectedBeforeAnyCall ==
    (chain.pc # "idle" /\ RejectableChain(chain.mcpPath))
        => /\ chain.pc = "returned"
           /\ chain.failed
           /\ chain.calls = <<>>
           /\ \A t \in TIds : transports[t].assigned = <<>> /\ child[t].inbox = <<>>

\* A chain whose first step is fine and whose second names an unknown tool
\* was rejected.
C7_Witness ==
    /\ chain.pc = "returned"
    /\ chain.mcpPath = UnknownToolChain
    /\ chain.thrown.where = "validate"

\* C8: the call of step k+1 is issued only after the call of step k has
\* returned and result has been taken from its response, and is made from
\* that result; a call still in flight is the last one issued and the
\* chain is waiting for it, so no two calls are in flight at once.
C8_StepsSequential ==
    \A j \in 1..Len(chain.calls) :
        /\ promises[chain.calls[j].p].st = "pending"
               => /\ j = Len(chain.calls)
                  /\ chain.pc = "awaiting"
                  /\ chain.awaiting = chain.calls[j].p
        /\ j > 1 => /\ chain.calls[j].step = chain.calls[j - 1].step + 1
                    /\ promises[chain.calls[j - 1].p].st = "resolved"
                    /\ Len(chain.carries) >= j - 1
                    /\ chain.calls[j].carry = chain.carries[j - 1]

\* The second call of a chain is in flight.
C8_Witness ==
    /\ Len(chain.calls) = 2
    /\ chain.pc = "awaiting"
    /\ promises[chain.calls[2].p].st = "pending"
    /\ promises[chain.calls[1].p].st = "resolved"

\* C9: when a step fails, no later step is called, the failed step is not
\* called again, and the error reported to the client names the step index,
\* the tool name and the underlying cause.
C9_AbortNamesStep ==
    (chain.pc = "returned" /\ chain.failed /\ chain.thrown.where = "step")
        => /\ \A j \in 1..Len(chain.calls) : chain.calls[j].step <= chain.thrown.step
           /\ \A j, k \in 1..Len(chain.calls) :
                  chain.calls[j].step = chain.calls[k].step => j = k
           /\ Includes(JsString(chain.reply.text), NumDigits(chain.thrown.step + 1))
           /\ Includes(JsString(chain.reply.text), chain.thrown.toolName)
           /\ Includes(JsString(chain.reply.text), chain.thrown.message)

\* C10 as stated: a failed chain is given to the upstream client as an error
\* response of the mcp_chain invocation, never as an ordinary text result.
C10_FailureIsErrorResponse ==
    (chain.pc = "returned" /\ chain.failed) => chain.reply.kind = "error"

\* C10 as amended: whenever the handler of mcp_chain ends after a failure
\* (of the request's schema, of validation or of a step), it returns an
\* ordinary text result, the prefix of line 66 followed by the error's
\* message, and does not throw.
C10_FailureReturnedAsText ==
    (chain.pc = "returned" /\ chain.failed)
        => /\ chain.reply.kind = "text"
           /\ chain.reply.text = JStr(ChainFailed \o chain.thrown.message)

\* The second step of a chain failed after the first had returned.
C10_Witness ==
    /\ chain.pc = "returned"
    /\ chain.failed
    /\ chain.thrown.where = "step"
    /\ chain.thrown.step = 1
    /\ Len(chain.calls) = 2

\* The chain has returned without a failure.
Succeeded == chain.pc = "returned" /\ ~chain.failed

\* The result member of the response call j was resolved with.
Response(j) == Get(promises[chain.calls[j].p].v, "result")

\* C11: a successful chain returns one text block whose text is the carry
\* after the last step; with no outputPath on the last step that is the
\* text of the first content item of the last tool response, unchanged (a
\* single-step chain on a tool returning hello returns hello).
C11_ReturnsLastCarry ==
    Succeeded
        => /\ chain.reply.kind = "text"
           /\ Len(chain.carries) = Len(chain.mcpPath)
           /\ chain.reply.text = chain.carries[Len(chain.carries)]
           /\ chain.mcpPath[Len(chain.mcpPath)].outputPath = Undefined
                  => \E x \in ToolTexts : /\ Response(Len(chain.calls)) = TextResult(x)
                                          /\ chain.reply.text = JStr(x)

\* A single-step chain on a tool that answered hello has returned hello.
C11_Witness ==
    /\ Succeeded
    /\ Len(chain.mcpPath) = 1
    /\ Response(Len(chain.calls)) = TextResult(<<"hello">>)
    /\ chain.reply.text = JStr(<<"hello">>)

MaxPasses == 2

\* this.serverInfo of the manager.
HostInfo ==
    JObj(<< [k |-> <<"name">>, v |-> JStr(<<"lp-tool-chainer-mcp">>)],
            [k |-> <<"version">>, v |-> JStr(<<"1", ".", "0">>)] >>)

\* The key getOtherServers leaves out.
ReservedKey == <<"mcp_tool_chainer">>

\* The requests connectToServer sends.
InitializeMessage ==
    [ method |-> "initialize",
      params |-> JObj(<< [k |-> <<"protocolVersion">>, v |-> JStr(<<"latest">>)],
                         [k |-> <<"capabilities">>,
                          v |-> JObj(<< [k |-> <<"tools">>, v |-> JObj(<<>>)] >>)],
                         [k |-> <<"clientInfo">>, v |-> HostInfo] >>) ]

ListMessage == [method |-> "tools/list", params |-> JObj(<<>>)]

\* The entries of a configuration's mcpServers: a program that lists fetch
\* and xpath, one that lists xpath, the chainer itself under another key
\* and under its reserved key, a program that answers initialize with an
\* error, one whose tools/list result has no tools, one that never answers
\* tools/list, and a command that cannot be spawned.
Web == [key |-> <<"web", "-", "1">>, command |-> "web"]
Docs == [key |-> <<"docs">>, command |-> "docs"]
Loop == [key |-> <<"loop">>, command |-> "self"]
Reserved == [key |-> ReservedKey, command |-> "self"]
Broken == [key |-> <<"broken">>, command |-> "broken"]
NoTools == [key |-> <<"bare">>, command |-> "notools"]
Silent == [key |-> <<"mute">>, command |-> "silent"]
Missing == [key |-> <<"gone">>, command |-> "missing"]

\* The program of Web configured once more, under another key.
Twin == [key |-> <<"twin">>, command |-> "web"]

\* The configuration files the process can be started with.
Configs ==
    { [mcpServers |-> servers] :
        servers \in { <<Web, Docs>>, <<Web, Twin>>, <<Loop, Web>>, <<Reserved, Web>>, <<Broken, Web>>,
                      <<NoTools, Web>>, <<Silent, Web>>, <<Missing, Web>>, <<>> } }

\* A tools array and the serverInfo a program reports.
ToolList(names) ==
    JArr([i \in 1..Len(names) |-> JObj(<< [k |-> <<"name">>, v |-> JStr(names[i])] >>)])

ServerInfo(name) ==
    JObj(<< [k |-> <<"name">>, v |-> JStr(name)],
            [k |-> <<"version">>, v |-> JStr(<<"1", ".", "0">>)] >>)

\* The line the program `command` answers the request [id, message] with,
\* as a set: empty where it does not answer.
ServerAnswer(command, id, message) ==
    IF message.method = "initialize"
    THEN CASE command = "self" ->
                  {ResultLine(id, JObj(<< [k |-> <<"serverInfo">>, v |-> HostInfo] >>))}
           [] command = "broken" -> {ErrorLine(id, 7, <<"boom">>)}
           [] command = "web" ->
                  {ResultLine(id, JObj(<< [k |-> <<"serverInfo">>,
                                           v |-> ServerInfo(<<"web", "-", "tools">>)] >>))}
           [] command \in {"docs", "notools", "silent"} ->
                  {ResultLine(id, JObj(<< [k |-> <<"serverInfo">>,
                                           v |-> ServerInfo(<<command>>)] >>))}
           [] OTHER -> {}
    ELSE IF message.method = "tools/list"
    THEN CASE command = "web" ->
                  {ResultLine(id, JObj(<< [k |-> <<"tools">>,
                                           v |-> ToolList(<< <<"fetch">>, <<"xpath">> >>)] >>))}
           [] command = "docs" ->
                  {ResultLine(id, JObj(<< [k |-> <<"tools">>,
                                           v |-> ToolList(<< <<"xpath">> >>)] >>))}
           [] command = "self" ->
                  {ResultLine(id, JObj(<< [k |-> <<"tools">>,
                                           v |-> ToolList(<< <<"mcp_chain">> >>)] >>))}
           [] command = "notools" -> {ResultLine(id, JObj(<<>>))}
           [] OTHER -> {}
    ELSE IF message.method = "tools/call" /\ command \in {"web", "docs"}
    THEN {ResultLine(id, TextResult(<<"hello">>))}
    ELSE {}

\* What the child of transport t may write: its answer to a request it has
\* read and not answered.
ServerLines(t) ==
    UNION { {[id |-> child[t].inbox[i].id, style |-> "result", text |-> line] :
                line \in ServerAnswer(transports[t].command, child[t].inbox[i].id,
                                      child[t].inbox[i].message)} :
            i \in {j \in DOMAIN child[t].inbox : child[t].inbox[j].id \in Unanswered(t)} }

\* A getOtherServers that leaves no entry out.
getOtherServers_all(cfg) == cfg.mcpServers

\* getOtherServers(): the entries of mcpServers but the reserved one.
getOtherServers(cfg) == SelectSeq(cfg.mcpServers, LAMBDA e : e.key # ReservedKey)

\* The message of the error getMcpServers throws when no configuration is
\* loaded, and the prefix registerTool's wrapper puts before a message.
ConfigNotLoaded == <<"config-not-loaded">>
ToolFailed == <<"tool-failed", ":", SP>>

\* getAvailableTools(): the primary alias of every toolInfo of the registry,
\* in the order of the registry's entries, each once.
RECURSIVE getAvailableTools(_)
getAvailableTools(ts) ==
    IF ts = <<>> THEN <<>>
    ELSE The({ The({ IF \E i \in 1..Len(before) : before[i] = toolKey
                     THEN before ELSE Append(before, toolKey) :
                     toolKey \in {formatName(Head(Last).v.name) \o <<"_">>
                                     \o Head(Last).v.tool.name} }) :
               before \in {getAvailableTools(SubSeq(ts, 1, Len(ts) - 1))},
               Last \in {<<ts[Len(ts)]>>} })

\* availableTools.join(', ')
RECURSIVE Join(_)
Join(list) ==
    IF list = <<>> THEN <<>>
    ELSE Head(list) \o (IF Len(list) > 1 THEN <<",", SP>> \o Join(Tail(list)) ELSE <<>>)

\* The upstream server.
\*   configPath   what the process was started with: a configuration file
\*                (here its content), or null
\*   pc           "start" before init; "idle"; "initialize" and "list" while
\*                connectToServer waits for the answer to that request;
\*                "wait" while discover_tools waits its three seconds
\*   initialized  init has returned: the tools are registered
\*   by           who called the pass of discoverTools in progress: "init"
\*                or "tool"
\*   servers, s   the servers of the pass and the index of the one being
\*                connected to
\*   conn, awaiting   its transport and the promise awaited
\*   info, init       its serverInfo, and the promise of initialize as settled
\*   log          the servers the pass has dealt with: key, transport, the
\*                outcome of the two requests, and how it ended: "registered",
\*                "self" or "failed"
\*   passes       the passes done: who called, "returned" or "thrown", the
\*                log, the list returned, the registry and the client table
\*                it left
\*   replies      what discover_tools has answered, with the pass it ran
\*   chainable    what chainable_tools has answered last
\*   exit         once the process has exited: its exit code, the client
\*                table as it was when the signal came, and the transports
\*                whose close() threw
NewUpstream(configPath) ==
    [ configPath |-> configPath, pc |-> "start", initialized |-> FALSE, by |-> "",
      servers |-> <<>>, s |-> 0, conn |-> 0, awaiting |-> 0, info |-> Undefined,
      init |-> Pending, exit |-> Undefined,
      log |-> <<>>, passes |-> <<>>, replies |-> <<>>, chainable |-> Undefined ]

\* The transports with those of the clients closed: discoverTools, lines
\* 440 to 442.
CloseClients(trs, cl) ==
    [t \in DOMAIN trs |-> IF \E i \in 1..Len(cl) : cl[i].v.transport = t
                          THEN close(trs[t]) ELSE trs[t]]

\* connectToServer as far as its first await, for server up.s of the pass:
\* a transport is made and started and initialize sent on it.  trs are the
\* transports as the caller leaves them.
ConnectToServer(up, trs) ==
    /\ \E t \in DOMAIN trs : ~trs[t].made
    /\ \E c \in {CHOOSE t \in DOMAIN trs :
                    ~trs[t].made /\ \A u \in DOMAIN trs : ~trs[u].made => t <= u} :
           /\ transports' =
                  [trs EXCEPT ![c] = send(start([NewTransport EXCEPT
                                                    !.command = up.servers[up.s].command]),
                                          InitializeMessage, Len(promises) + 1, FALSE)]
           /\ promises' = Append(promises, Pending)
           /\ child' = [child EXCEPT ![c].inbox =
                           Append(@, [id |-> 1, message |-> InitializeMessage,
                                      read |-> FALSE])]
           /\ upstream' = [up EXCEPT !.pc = "initialize", !.conn = c,
                                     !.awaiting = Len(promises) + 1, !.info = Undefined,
                                     !.init = Pending]

\* A discoverTools that returns its list after the list of the pass before.
PassReturns_accumulates(up, ts, cl) ==
    upstream' = [up EXCEPT !.pc = IF up.by = "init" THEN "idle" ELSE "wait",
                           !.initialized = TRUE,
                           !.awaiting = 0, !.conn = 0, !.s = 0,
                           !.passes = Append(@, [ by |-> up.by, outcome |-> "returned",
                                                  log |-> up.log,
                                                  list |-> (IF up.passes = <<>> THEN <<>>
                                                            ELSE up.passes[Len(up.passes)].list)
                                                           \o getAvailableTools(ts),
                                                  tools |-> ts, clients |-> cl ])]

\* discoverTools after its loop: the list is returned to init, which
\* registers the tools, or to discover_tools, which goes on to wait.
PassReturns(up, ts, cl) ==
    upstream' = [up EXCEPT !.pc = IF up.by = "init" THEN "idle" ELSE "wait",
                           !.initialized = TRUE,
                           !.awaiting = 0, !.conn = 0, !.s = 0,
                           !.passes = Append(@, [ by |-> up.by, outcome |-> "returned",
                                                  log |-> up.log,
                                                  list |-> getAvailableTools(ts),
                                                  tools |-> ts, clients |-> cl ])]

\* discoverTools from line 438 on, called by init or by discover_tools,
\* with the configuration cfg loaded (or null), as far as its first await
\* or, where it throws or has no server, to its end.
StartPass(up, cfg) ==
    \E trs \in {CloseClients(transports, clients)} :
        /\ tools' = <<>>
        /\ clients' = <<>>
        /\ IF cfg = JNull
           THEN /\ upstream' =
                       [up EXCEPT !.passes = Append(@, [ by |-> up.by, outcome |-> "thrown",
                                                         log |-> <<>>, list |-> <<>>,
                                                         tools |-> <<>>, clients |-> <<>> ]),
                                  !.replies = Append(@, [ pass |-> Len(up.passes) + 1,
                                                          text |-> ToolFailed \o ConfigNotLoaded ])]
                /\ transports' = trs
                /\ UNCHANGED <<promises, child>>
           ELSE \E servers \in {getOtherServers(cfg)} :
                    IF servers = <<>>
                    THEN /\ PassReturns([up EXCEPT !.servers = servers, !.log = <<>>],
                                        <<>>, <<>>)
                         /\ transports' = trs
                         /\ UNCHANGED <<promises, child>>
                    ELSE ConnectToServer([up EXCEPT !.servers = servers, !.log = <<>>,
                                                    !.s = 1], trs)

\* An init that, given no path, loads a configuration of its own.
ServerInit_defaultConfig ==
    /\ upstream.pc = "start"
    /\ \E cfg \in {IF upstream.configPath = JNull THEN [mcpServers |-> <<Web>>]
                    ELSE upstream.configPath} :
           /\ config' = cfg
           /\ StartPass([upstream EXCEPT !.by = "init"], cfg)
    /\ UNCHANGED <<chain, subst>>

\* init(configPath): the configuration is loaded and discoverTools called,
\* or, without a path, the tools are registered at once.
ServerInit ==
    /\ upstream.pc = "start"
    /\ IF upstream.configPath = JNull
       THEN /\ upstream' = [upstream EXCEPT !.pc = "idle", !.initialized = TRUE]
            /\ UNCHANGED <<transports, promises, child, tools, clients, config>>
       ELSE /\ config' = upstream.configPath
            /\ StartPass([upstream EXCEPT !.by = "init"], upstream.configPath)
    /\ UNCHANGED <<chain, subst>>

\* The handler of discover_tools is called: it calls discoverTools.
DiscoverTools ==
    /\ upstream.pc = "idle"
    /\ upstream.initialized
    /\ Len(upstream.passes) < MaxPasses
    /\ StartPass([upstream EXCEPT !.by = "tool"], config)
    /\ UNCHANGED <<config, chain, subst>>

\* A loop of discoverTools that a failing server ends.
NextServer_stopsAtFailure(up, trs, ts, cl, outcome, init, list) ==
    \E logged \in {[up EXCEPT !.log = Append(@, [ key |-> up.servers[up.s].key,
                                                  conn |-> up.conn, init |-> init,
                                                  list |-> list, outcome |-> outcome ])]} :
        /\ tools' = ts
        /\ clients' = cl
        /\ IF up.s < Len(up.servers) /\ outcome # "failed"
           THEN ConnectToServer([logged EXCEPT !.s = @ + 1], trs)
           ELSE /\ PassReturns(logged, ts, cl)
                /\ transports' = trs
                /\ UNCHANGED <<promises, child>>

\* connectToServer is done with server up.s, which ended as `outcome`: the
\* loop of discoverTools goes on with the next server, or the pass returns.
NextServer(up, trs, ts, cl, outcome, init, list) ==
    \E logged \in {[up EXCEPT !.log = Append(@, [ key |-> up.servers[up.s].key,
                                                  conn |-> up.conn, init |-> init,
                                                  list |-> list, outcome |-> outcome ])]} :
        /\ tools' = ts
        /\ clients' = cl
        /\ IF up.s < Len(up.servers)
           THEN ConnectToServer([logged EXCEPT !.s = @ + 1], trs)
           ELSE /\ PassReturns(logged, ts, cl)
                /\ transports' = trs
                /\ UNCHANGED <<promises, child>>

\* The transports with transport c closed.
Closed(c) == [transports EXCEPT ![c] = close(@)]

\* A connectToServer that looks for the host under its reserved key instead
\* of under the name it reports.
IsSelf_byKey(serverInfo) == Get(serverInfo, "name") = JStr(ReservedKey)

\* A connectToServer that goes on with a server reporting the host's own
\* identity.
IsSelf_never(serverInfo) == FALSE

\* connectToServer, lines 360 to 363: the server reports the host's identity.
IsSelf(serverInfo) ==
    /\ Get(serverInfo, "name") = Get(HostInfo, "name")
    /\ Get(serverInfo, "version") = Get(HostInfo, "version")

\* The client connectToServer makes of a tools/list result.
NewClient(up, toolList) ==
    [ serverKey |-> up.servers[up.s].key,
      serverInfo |-> [name |-> Get(up.info, "name").s],
      tools |-> [i \in 1..Len(toolList.a) |-> Get(toolList.a[i], "name").s],
      transport |-> up.conn ]

\* The send() connectToServer awaits is settled: it goes on after the
\* answer to initialize or to tools/list, as far as the next await.
Connected ==
    /\ upstream.pc \in {"initialize", "list"}
    /\ Returned(promises[upstream.awaiting])
    /\ \E pr \in {promises[upstream.awaiting]} :
       \E result \in {Get(pr.v, "result")} :
           IF pr.st = "rejected"
           THEN IF upstream.pc = "initialize"
                THEN NextServer(upstream, transports, tools, clients, "failed", pr, Pending)
                ELSE NextServer(upstream, transports, tools, clients, "failed",
                                upstream.init, pr)
           ELSE IF upstream.pc = "initialize"
           THEN \E serverInfo \in {Get(result, "serverInfo")} :
                    IF ~(Truthy(result) /\ Truthy(serverInfo))
                    THEN NextServer(upstream, Closed(upstream.conn), tools, clients,
                                    "failed", pr, Pending)
                    ELSE IF IsSelf(serverInfo)
                    THEN NextServer(upstream, Closed(upstream.conn), tools, clients,
                                    "self", pr, Pending)
                    ELSE /\ DoSend(upstream.conn, ListMessage, FALSE)
                         /\ upstream' = [upstream EXCEPT !.pc = "list",
                                                         !.awaiting = Len(promises) + 1,
                                                         !.info = serverInfo,
                                                         !.init = pr]
                         /\ UNCHANGED <<tools, clients>>
           ELSE \E toolList \in {Get(result, "tools")} :
                    IF Truthy(result) /\ Truthy(toolList)
                    THEN \E client \in {NewClient(upstream, toolList)} :
                             NextServer(upstream, transports,
                                        registerToolsFromClient(tools, client, 1),
                                        MapSet(clients, client.serverKey, client),
                                        "registered", upstream.init, pr)
                    ELSE NextServer(upstream, Closed(upstream.conn), tools, clients,
                                    "failed", upstream.init, pr)
    /\ UNCHANGED <<config, chain, subst>>

\* A discover_tools that answers with the registry as it is while its pass
\* is still at work.
Reply_early ==
    /\ upstream.pc \in {"initialize", "list", "wait"}
    /\ upstream.by = "tool"
    /\ Len(upstream.replies) < Len(upstream.passes) + 1
    /\ upstream' = [upstream EXCEPT
                       !.pc = IF @ = "wait" THEN "idle" ELSE @,
                       !.replies = Append(@, [ pass |-> Len(upstream.passes),
                                               text |-> Join(getAvailableTools(tools)) ])]
    /\ UNCHANGED <<transports, promises, child, tools, clients, config, chain, subst>>

\* The three seconds of discover_tools are over: it returns the list that
\* discoverTools gave it.
Reply ==
    /\ upstream.pc = "wait"
    /\ upstream' = [upstream EXCEPT
                       !.pc = "idle",
                       !.replies = Append(@, [ pass |-> Len(upstream.passes),
                                               text |-> Join(upstream.passes[Len(upstream.passes)].list) ])]
    /\ UNCHANGED <<transports, promises, child, tools, clients, config, chain, subst>>

\* A chainable_tools that runs a discovery of its own first.
ChainableTools_rediscover ==
    /\ upstream.initialized
    /\ tools' = <<>>
    /\ upstream' = [upstream EXCEPT !.chainable = JStr(<<>>)]
    /\ UNCHANGED <<transports, promises, child, clients, config, chain, subst>>

\* The handler of chainable_tools: the list of getAvailableTools, joined.
ChainableTools ==
    /\ upstream.initialized
    /\ upstream' = [upstream EXCEPT !.chainable = JStr(Join(getAvailableTools(tools)))]
    /\ UNCHANGED <<transports, promises, child, tools, clients, config, chain, subst>>

\* mcp_chain is called on a server that was started without a
\* configuration.
DegradedMcpChain(mcpPath) ==
    /\ upstream.initialized
    /\ upstream.configPath = JNull
    /\ McpChain(mcpPath)

\* ------------------------------------------------------------------------
\* SpecHost: the upstream server from its start, with or without a
\* configuration: init, then calls of discover_tools (one at a time),
\* chainable_tools and, without a configuration, mcp_chain.  A transport
\* is made for every server a pass connects to.  A server answers a
\* request as its program does and in time, or never, and then the request
\* times out; writing to a command that was not spawned fails.
\* ------------------------------------------------------------------------

\* The transports a run can make: two for each pass.
ConnIds == 1..(2 * MaxPasses)

InitHost ==
    /\ transports = [t \in ConnIds |-> NewTransport]
    /\ promises = <<>>
    /\ child = [t \in ConnIds |-> NewChild]
    /\ tools = <<>>
    /\ clients = <<>>
    /\ config = JNull
    /\ chain = NewChain
    /\ subst = NoSubst
    /\ upstream \in {NewUpstream(c) : c \in Configs \cup {JNull}}

\* The timeout of a request expires: one the server does not answer, or
\* one whose promise is settled already.
Expires(t, id) ==
    /\ id \in transports[t].timers
    /\ \/ id \notin transports[t].messageHandlers
       \/ ServerAnswer(transports[t].command, id, transports[t].requests[id]) = {}
    /\ TimerFires(t, id)

NextHost ==
    \/ ServerInit
    \/ DiscoverTools
    \/ Connected
    \/ Reply
    \/ ChainableTools
    \/ \E mcpPath \in ChainInputs : DegradedMcpChain(mcpPath)
    \/ \E t \in ConnIds, id \in 1..MaxSends :
           WriteCallback(t, id, transports[t].command = "missing")
    \/ \E t \in ConnIds, id \in 1..MaxSends : Expires(t, id)
    \/ \E t \in ConnIds : \E w \in ServerLines(t) : ChildWrites(t, w)
    \/ \E t \in ConnIds : StdoutData(t, Len(child[t].pipe))

SpecHost == InitHost /\ [][NextHost]_vars

\* ------------------------------------------------------------------------
\* SpecShutdown: the upstream server as in SpecHost, with SIGINT or SIGTERM
\* arriving at any moment.  After process.exit nothing of the process runs.
\* ------------------------------------------------------------------------

\* A McpClientManager.close that gives up at the first client whose
\* transport.close() throws.
managerClose_stopsAtFailure(trs, cl, failing) ==
    [t \in DOMAIN trs |->
        IF \E i \in 1..Len(cl) :
               /\ cl[i].v.transport = t
               /\ \A j \in 1..i : cl[j].v.transport \notin failing
        THEN close(trs[t]) ELSE trs[t]]

\* McpClientManager.close(), its loop: the transport of every client is
\* closed, but those in `failing`, whose close() throws (the error is
\* caught and logged, the transport is as it was).
managerClose(trs, cl, failing) ==
    [t \in DOMAIN trs |->
        IF t \notin failing /\ \E i \in 1..Len(cl) : cl[i].v.transport = t
        THEN close(trs[t]) ELSE trs[t]]

\* The handler of SIGINT and SIGTERM: server.stop(), which closes the
\* manager (the transports of the clients, then both tables cleared) and
\* stops the upstream server, then process.exit(0).
Shutdown(failing) ==
    /\ upstream.pc \notin {"none", "exited"}
    /\ transports' = managerClose(transports, clients, failing)
    /\ clients' = <<>>
    /\ tools' = <<>>
    /\ upstream' = [upstream EXCEPT !.pc = "exited", !.initialized = FALSE,
                                    !.exit = [ code |-> 0, clients |-> clients,
                                               failing |-> failing ]]
    /\ UNCHANGED <<promises, child, config, chain, subst>>

\* The process has not exited.
Running == upstream.pc # "exited"

NextShutdown ==
    \/ ServerInit
    \/ DiscoverTools
    \/ Connected
    \/ Reply
    \/ ChainableTools
    \/ \E mcpPath \in ChainInputs : DegradedMcpChain(mcpPath)
    \/ \E t \in ConnIds, id \in 1..MaxSends :
           Running /\ WriteCallback(t, id, transports[t].command = "missing")
    \/ \E t \in ConnIds, id \in 1..MaxSends : Running /\ Expires(t, id)
    \/ \E t \in ConnIds : \E w \in ServerLines(t) : ChildWrites(t, w)
    \/ \E t \in ConnIds : Running /\ StdoutData(t, Len(child[t].pipe))
    \/ \E failing \in SUBSET {clients[i].v.transport : i \in 1..Len(clients)} :
           Shutdown(failing)

SpecShutdown == InitHost /\ [][NextShutdown]_vars

\* ------------------------------------------------------------------------
\* Properties of discovery and of the upstream tools (SpecHost)
\* ------------------------------------------------------------------------

\* What the servers of a pass answered: for each, its key and how the two
\* requests ended.
Answers(pass) ==
    [i \in 1..Len(pass.log) |-> [key |-> pass.log[i].key, init |-> pass.log[i].init,
                                 list |-> pass.log[i].list]]

\* C15: two passes of discoverTools that return, under the same
\* configuration and with the same answers of the servers, leave the same
\* set of aliases in the registry and return the same list.
C15_DiscoverTwiceSame ==
    \A i, j \in 1..Len(upstream.passes) :
        \E a \in {upstream.passes[i]}, b \in {upstream.passes[j]} :
            (a.outcome = "returned" /\ b.outcome = "returned" /\ Answers(a) = Answers(b))
                => Keys(a.tools) = Keys(b.tools) /\ a.list = b.list

\* Two passes are done over two servers that both list xpath.
C15_Witness ==
    /\ Len(upstream.passes) = 2
    /\ upstream.passes[2].by = "tool"
    /\ Answers(upstream.passes[1]) = Answers(upstream.passes[2])
    /\ Len(upstream.passes[2].log) = 2
    /\ \A i \in 1..2 : upstream.passes[2].log[i].outcome = "registered"
    /\ Len(upstream.passes[2].list) = 3

\* The servers the passes have dealt with, those of the pass in progress
\* included.
Attempts ==
    {upstream.log[i] : i \in 1..Len(upstream.log)}
        \cup UNION { {upstream.passes[n].log[i] : i \in 1..Len(upstream.passes[n].log)} :
                     n \in 1..Len(upstream.passes) }

\* The server of attempt e answered initialize with the host's identity.
ReportsHost(e) ==
    /\ e.init.st = "resolved"
    /\ \E serverInfo \in {Get(Get(e.init.v, "result"), "serverInfo")} :
           /\ serverInfo # Undefined
           /\ Get(serverInfo, "name") = Get(HostInfo, "name")
           /\ Get(serverInfo, "version") = Get(HostInfo, "version")

\* C16: a server that answered initialize with the host's own name and
\* version has no key in the registry and no entry in the client table,
\* and its transport is closed.
C16_SelfSkipped ==
    \A e \in Attempts :
        ReportsHost(e) =>
            /\ \A i \in 1..Len(tools) :
                   tools[i].v.client # e.conn /\ tools[i].v.serverJsonKey # e.key
            /\ \A i \in 1..Len(clients) :
                   clients[i].k # e.key /\ clients[i].v.transport # e.conn
            /\ ~transports[e.conn].connected
            /\ ~transports[e.conn].process
            /\ e.outcome = "self"

\* A pass is done in which a server reported the host's identity and the
\* server after it registered its tools.
C16_Witness ==
    /\ upstream.passes # <<>>
    /\ \E pass \in {upstream.passes[Len(upstream.passes)]} :
           /\ Len(pass.log) = 2
           /\ ReportsHost(pass.log[1])
           /\ pass.log[2].outcome = "registered"
           /\ Len(pass.tools) > 0

\* The keys of the servers of a list, in its order.
ServerKeys(servers) == [i \in 1..Len(servers) |-> servers[i].key]

\* The names in the tools array that the server of attempt e listed.
Listed(e) ==
    The({ {Get(toolList.a[i], "name").s : i \in 1..Len(toolList.a)} :
          toolList \in {Get(Get(e.list.v, "result"), "tools")} })

\* The server of attempt e answered both requests as connectToServer
\* requires.
Succeeds(e) ==
    /\ e.init.st = "resolved" /\ ~ReportsHost(e)
    /\ e.list.st = "resolved"
    /\ Truthy(Get(e.list.v, "result"))
    /\ Truthy(Get(Get(e.list.v, "result"), "tools"))

\* C17 as stated: no pass of discoverTools throws.
C17_DiscoverNeverFails ==
    \A n \in 1..Len(upstream.passes) : upstream.passes[n].outcome = "returned"

\* C17, amended: with a configuration loaded, every pass of discoverTools
\* returns, having dealt with every server but the one under the reserved
\* key in the configuration's order, whatever became of the servers before,
\* and having registered every tool of every server that succeeded; while
\* it waits for a server the request's timeout is armed.
C17_DiscoverCompletes ==
    config # JNull =>
        /\ \A n \in 1..Len(upstream.passes) :
               \E pass \in {upstream.passes[n]} :
                   /\ pass.outcome = "returned"
                   /\ ServerKeys(pass.log) = ServerKeys(getOtherServers(config))
                   /\ \A i \in 1..Len(pass.log) : pass.log[i].key # ReservedKey
                   /\ \A i \in 1..Len(pass.log) :
                          Succeeds(pass.log[i]) =>
                              /\ pass.log[i].outcome = "registered"
                              /\ \A name \in Listed(pass.log[i]) :
                                     /\ name \in Keys(pass.tools)
                                     /\ \E j \in 1..Len(pass.tools) :
                                            /\ pass.tools[j].k =
                                                   formatName(pass.log[i].key) \o <<"_">> \o name
                                            /\ pass.tools[j].v.client = pass.log[i].conn
        /\ upstream.pc \in {"initialize", "list"} =>
               \/ Returned(promises[upstream.awaiting])
               \/ \E id \in transports[upstream.conn].timers :
                      transports[upstream.conn].promiseOf[id] = upstream.awaiting

\* A pass has returned in which the first server failed and the second
\* registered its tools.
C17_Witness ==
    /\ config # JNull
    /\ \E n \in 1..Len(upstream.passes) :
           /\ Len(upstream.passes[n].log) = 2
           /\ upstream.passes[n].log[1].outcome = "failed"
           /\ Succeeds(upstream.passes[n].log[2])
           /\ Len(upstream.passes[n].list) = 2

\* The message is that of validateChainConfig's error for a tool that is
\* not in the registry.
IsToolNotFound(message) == \E i \in 1..Len(message) : message[i] = "tool-not-found"

\* The chain passes the request schema and the checks validateChainConfig
\* makes before it looks the first tool up.
ReachesLookup(mcpPath) ==
    /\ McpChainRequestSchema(mcpPath)
    /\ mcpPath # <<>>
    /\ Truthy(mcpPath[1].toolName)
    /\ Truthy(mcpPath[1].toolArgs)
    /\ JsonParse(mcpPath[1].toolArgs.s).ok

\* C18 as stated: on a process started without a configuration every
\* mcp_chain fails with a tool-not-found error.
C18_DegradedAlwaysToolNotFound ==
    (upstream.configPath = JNull /\ chain.pc = "returned")
        => chain.failed /\ IsToolNotFound(chain.thrown.message)

\* C18, amended: on a process started without a configuration the registry
\* is empty and no transport is ever made; every mcp_chain fails in
\* validation without a call, with the tool-not-found error of its first
\* step when it gets as far as the lookup and with the error of the check
\* it fails otherwise; and chainable_tools, discover_tools and mcp_chain
\* have answered every request made.
C18_DegradedMode ==
    upstream.configPath = JNull =>
        /\ tools = <<>> /\ clients = <<>>
        /\ promises = <<>>
        /\ \A t \in DOMAIN transports : ~transports[t].made
        /\ chain.pc \in {"idle", "returned"}
        /\ chain.pc = "returned" =>
               /\ chain.failed /\ ~chain.validated /\ chain.calls = <<>>
               /\ chain.thrown.where = "validate"
               /\ chain.reply = [kind |-> "text",
                                 text |-> JStr(ChainFailed \o chain.thrown.message)]
               /\ ReachesLookup(chain.mcpPath) <=> IsToolNotFound(chain.thrown.message)
               /\ ReachesLookup(chain.mcpPath) =>
                      chain.thrown.message =
                          StepError(1, <<"tool-not-found", ":", SP>> \o chain.mcpPath[1].toolName.s)
        /\ upstream.pc \in {"start", "idle"}
        /\ Len(upstream.replies) = Len(upstream.passes)
        /\ \A n \in 1..Len(upstream.replies) :
               upstream.replies[n].text = ToolFailed \o ConfigNotLoaded
        /\ upstream.chainable \in {Undefined, JStr(<<>>)}

\* Without a configuration, an mcp_chain has failed for its first tool,
\* discover_tools has answered and chainable_tools has.
C18_Witness ==
    /\ upstream.configPath = JNull
    /\ chain.pc = "returned" /\ IsToolNotFound(chain.thrown.message)
    /\ Len(chain.mcpPath) = 2
    /\ Len(upstream.replies) >= 1
    /\ upstream.chainable = JStr(<<>>)

\* C19: a step in which chainable_tools answers leaves the registry, the
\* client table, every transport, the promises of the requests sent and
\* what has been written to the servers as they were, and its answer is the
\* list of the registry as it is.
C19_ChainableToolsReadsOnly ==
    [][upstream'.chainable # upstream.chainable =>
           /\ UNCHANGED <<tools, clients, transports, promises, child, config, chain>>
           /\ upstream' = [upstream EXCEPT
                              !.chainable = JStr(Join(getAvailableTools(tools)))]]_vars

\* chainable_tools has answered with the tools of the first server while
\* a pass waits for the second.
C19_Witness ==
    /\ upstream.pc \in {"initialize", "list"}
    /\ upstream.s = 2
    /\ tools # <<>>
    /\ upstream.chainable = JStr(Join(getAvailableTools(tools)))

\* The primary aliases of a registry: for each of its entries the server's
\* reported name, formatted, and the tool's name.
PrimaryAliases(ts) ==
    {formatName(ts[i].v.name) \o <<"_">> \o ts[i].v.tool.name : i \in 1..Len(ts)}

\* The list holds the primary aliases of the registry, each once.
ListsPrimaryAliases(list, ts) ==
    /\ {list[i] : i \in 1..Len(list)} = PrimaryAliases(ts)
    /\ \A i, j \in 1..Len(list) : list[i] = list[j] => i = j

\* The reply is that of a discover_tools whose pass is over, has dealt with
\* every server of the configuration and has returned the list replied.
AfterItsPass(reply) ==
    /\ upstream.pc = "wait"
    /\ reply.pass = Len(upstream.passes)
    /\ \E pass \in {upstream.passes[reply.pass]} :
           /\ pass.by = "tool" /\ pass.outcome = "returned"
           /\ ServerKeys(pass.log) = ServerKeys(getOtherServers(config))
           /\ pass.tools = tools
           /\ ListsPrimaryAliases(pass.list, tools)
           /\ reply.text = Join(pass.list)

\* C20 as stated: whenever discover_tools answers, the pass it ran is over
\* and its answer is the list of the primary aliases of the registry.
C20_ReplyIsListOfPass ==
    [][Len(upstream'.replies) > Len(upstream.replies)
           => AfterItsPass(upstream'.replies[Len(upstream'.replies)])]_vars

\* C20, amended: with a configuration loaded, whenever discover_tools
\* answers, the pass it ran is over and its answer is the list of the
\* primary aliases of the registry.
C20_ReplyIsListOfPassOfConfig ==
    [][(config # JNull /\ Len(upstream'.replies) > Len(upstream.replies))
           => AfterItsPass(upstream'.replies[Len(upstream'.replies)])]_vars

\* discover_tools has answered with the three tools of two servers that
\* list a tool of the same name.
C20_Witness ==
    /\ upstream.replies # <<>>
    /\ \E reply \in {upstream.replies[Len(upstream.replies)]} :
           /\ upstream.passes[reply.pass].outcome = "returned"
           /\ Len(upstream.passes[reply.pass].log) = 2
           /\ Len(upstream.passes[reply.pass].list) = 3
           /\ reply.text = Join(upstream.passes[reply.pass].list)

\* ------------------------------------------------------------------------
\* SpecRegistry: registerToolsFromClient applied to the clients of servers
\* connected one after the other, whose keys, names and tool names share
\* words, so that their aliases can meet.
\* ------------------------------------------------------------------------

\* How many clients are registered.
MaxClients == 2

\* The clients connectToServer can have made on transport t: the key is
\* a, a-b or b, the name the server gave a, a-b or a_b, and it listed x, x
\* and y, x and a_x, or x twice.
RegClients(t) ==
    { [ serverKey |-> key, serverInfo |-> [name |-> name], tools |-> list,
        transport |-> t ] :
        key \in {<<"a">>, <<"a", "-", "b">>, <<"b">>},
        name \in {<<"a">>, <<"a", "-", "b">>, <<"a", "_", "b">>},
        list \in { << <<"x">> >>, << <<"x">>, <<"y">> >>,
                   << <<"x">>, <<"a", "_", "x">> >>, << <<"x">>, <<"x">> >> } }

InitRegistry ==
    /\ transports = [t \in TIds |-> NewTransport]
    /\ promises = <<>>
    /\ child = [t \in TIds |-> NewChild]
    /\ tools = <<>>
    /\ chain = NoChain
    /\ subst = NoSubst
    /\ config = JNull
    /\ clients = <<>>
    /\ upstream = NoUpstream

\* connectToServer, lines 384 to 387, for a server under a key not yet in
\* the client table.
RegisterToolsFromClient(client) ==
    /\ Len(clients) < MaxClients
    /\ client.serverKey \notin Keys(clients)
    /\ clients' = MapSet(clients, client.serverKey, client)
    /\ tools' = registerToolsFromClient(tools, client, 1)
    /\ UNCHANGED <<transports, promises, child, chain, subst, config, upstream>>

NextRegistry ==
    \E client \in RegClients(Len(clients) + 1) : RegisterToolsFromClient(client)

SpecRegistry == InitRegistry /\ [][NextRegistry]_vars

\* The registry after the clients 1 to j - 1 of the client table and the
\* first n tools of client j have been registered.
RECURSIVE RegistryAt(_, _)
RegistryAt(j, n) ==
    IF j = 0 THEN <<>>
    ELSE registerToolsFromClient(RegistryAt(j - 1, IF j = 1 THEN 0
                                                   ELSE Len(clients[j - 1].v.tools)),
                                 [clients[j].v EXCEPT !.tools = SubSeq(@, 1, n)], 1)

\* The three aliases of tool n of a client.
Aliases(client, n) ==
    { formatName(client.serverInfo.name) \o <<"_">> \o client.tools[n],
      formatName(client.serverKey) \o <<"_">> \o client.tools[n],
      client.tools[n] }

\* C21: right after tool n of a client has been registered, its three
\* aliases are keys of the registry and findTool gives for each the same
\* record: that of this tool, with the transport of this client.
C21_ThreeAliasesOneRecord ==
    /\ tools = RegistryAt(Len(clients), IF clients = <<>> THEN 0
                                        ELSE Len(clients[Len(clients)].v.tools))
    /\ \A j \in 1..Len(clients) :
       \A n \in 1..Len(clients[j].v.tools) :
           \E client \in {clients[j].v}, ts \in {RegistryAt(j, n)} :
               /\ Aliases(client, n) \subseteq Keys(ts)
               /\ \A alias \in Aliases(client, n) :
                      findTool(ts, alias) =
                          [ name |-> client.serverInfo.name,
                            serverJsonKey |-> client.serverKey,
                            tool |-> [name |-> client.tools[n]],
                            client |-> client.transport ]

\* Two clients are registered, the second one's tools after a tool of the
\* same bare name of the first.
C21_Witness ==
    /\ Len(clients) = 2
    /\ Len(clients[2].v.tools) = 2
    /\ clients[1].v.serverInfo.name # clients[2].v.serverInfo.name
    /\ findTool(tools, <<"x">>).client = 2
    /\ findTool(tools, formatName(clients[1].v.serverKey) \o <<"_", "x">>).client = 1

\* The name the server of attempt e reported.
ReportedName(e) == Get(Get(Get(e.init.v, "result"), "serverInfo"), "name").s

\* In registry ts the alias resolves to the tool `name` of attempt e.
ResolvesTo(ts, alias, e, name) ==
    /\ alias \in Keys(ts)
    /\ findTool(ts, alias).client = e.conn
    /\ findTool(ts, alias).tool.name = name

\* C22: in the registry a pass of discovery leaves, the alias made of the
\* server's reported name and the alias made of its configuration key
\* resolve, for every tool of every server that registered, to that tool
\* on that server.
C22_QualifiedAliasesStable ==
    \A p \in 1..Len(upstream.passes) :
        \E pass \in {upstream.passes[p]} :
            \A i \in 1..Len(pass.log) :
                pass.log[i].outcome = "registered" =>
                    \A name \in Listed(pass.log[i]) :
                        /\ ResolvesTo(pass.tools,
                                      formatName(ReportedName(pass.log[i])) \o <<"_">> \o name,
                                      pass.log[i], name)
                        /\ ResolvesTo(pass.tools,
                                      formatName(pass.log[i].key) \o <<"_">> \o name,
                                      pass.log[i], name)

\* The transports that have been made.
Made == {t \in DOMAIN transports : transports[t].made}

\* C23: the entry of the configuration under the key mcp_tool_chainer is
\* in no pass connected to: every transport made is that of an attempt at
\* another entry and runs the command of another entry, no attempt, no
\* client and no registry record bears the reserved key.
C23_ReservedKeyNeverSpawned ==
    config # JNull =>
        /\ \A e \in Attempts : e.key # ReservedKey
        /\ upstream.pc \in {"initialize", "list"} =>
               upstream.servers[upstream.s].key # ReservedKey
        /\ Made = {e.conn : e \in Attempts}
                      \cup (IF upstream.pc \in {"initialize", "list"}
                            THEN {upstream.conn} ELSE {})
        /\ \A t \in Made :
               \E i \in 1..Len(config.mcpServers) :
                   /\ config.mcpServers[i].key # ReservedKey
                   /\ config.mcpServers[i].command = transports[t].command
        /\ \A i \in 1..Len(clients) : clients[i].k # ReservedKey
        /\ \A i \in 1..Len(tools) : tools[i].v.serverJsonKey # ReservedKey

\* Two passes are done under a configuration whose first entry has the
\* reserved key; each has dealt with the other entry only.
C23_Witness ==
    /\ config # JNull
    /\ Len(config.mcpServers) = 2
    /\ config.mcpServers[1].key = ReservedKey
    /\ Len(upstream.passes) = 2
    /\ \A p \in 1..2 : /\ Len(upstream.passes[p].log) = 1
                       /\ upstream.passes[p].log[1].outcome = "registered"

\* ------------------------------------------------------------------------
\* Properties of the transport: close, timeouts, dispatch by id, remote
\* errors (SpecTransport)
\* ------------------------------------------------------------------------

\* The ids send() has assigned on transport t.
Assigned(t) == {transports[t].assigned[i] : i \in 1..Len(transports[t].assigned)}

\* C24: a step in which a transport is closed leaves every request that has
\* an entry in its pending table rejected.
C24_CloseRejectsPending ==
    [][\A t \in TIds :
           (transports[t].connected /\ ~transports'[t].connected)
               => \A id \in transports[t].messageHandlers :
                      promises'[transports[t].promiseOf[id]].st = "rejected"]_vars

\* The ids of the frames in the data stdout has to deliver.
FramesIn(t) == {child[t].unread[i].id : i \in 1..Len(child[t].unread)}

\* The step delivers that data.
Delivers(t) == child[t].pipe # <<>> /\ child'[t].pipe = <<>>

\* C25: when the timeout of a request that has its entry in the pending
\* table expires, the request is rejected with the timeout error and its
\* entry removed; its outcome then stays, and data delivered later that
\* holds a frame of its id leaves it out of the table and leaves every
\* other request that has no frame in that data as it was: entry, timer
\* and promise.
C25_TimeoutThenLateFrame ==
    [][\A t \in TIds : \A id \in Assigned(t) :
           \E p \in {transports[t].promiseOf[id]} :
               /\ (/\ id \in transports[t].timers /\ id \notin transports'[t].timers
                   /\ id \in transports[t].messageHandlers
                   /\ child' = child)
                      => /\ promises'[p] =
                                Rejected("timeout",
                                         JStr(TimeoutError(transports[t].requests[id], id)))
                         /\ id \notin transports'[t].messageHandlers
               /\ promises[p].kind = "timeout"
                      => /\ promises'[p] = promises[p]
                         /\ id \notin transports'[t].messageHandlers
               /\ (promises[p].kind = "timeout" /\ Delivers(t) /\ id \in FramesIn(t))
                      => \A other \in Assigned(t) \ FramesIn(t) :
                             /\ other \in transports'[t].messageHandlers
                                    <=> other \in transports[t].messageHandlers
                             /\ other \in transports'[t].timers
                                    <=> other \in transports[t].timers
                             /\ promises'[transports[t].promiseOf[other]]
                                    = promises[transports[t].promiseOf[other]]]_vars

\* The first request has timed out, its answer has been written and
\* delivered since, and the second request is still waiting.
C25_Witness ==
    /\ Len(promises) = 2
    /\ promises[1].kind = "timeout"
    /\ \E a \in child[1].answered : a.id = 1
    /\ child[1].pipe = <<>>
    /\ promises[2].st = "pending"
    /\ 2 \in transports[1].messageHandlers

\* The child of transport t has written a frame of that style for id.
Answered(t, id, style) == [id |-> id, style |-> style] \in child[t].answered

\* C26: with several requests on one transport, whatever the order of the
\* child's answers, a request is resolved with a response that carries its
\* own id and that the child wrote for it, and rejected as a remote error
\* only after an error frame for it; a step settles a request by a
\* response only when data with a frame of its id is delivered, and a
\* settled request keeps its outcome.
C26_DispatchedById ==
    [][\A t \in TIds : \A id \in Assigned(t) :
           \E p \in {transports[t].promiseOf[id]} :
               /\ promises'[p].st = "resolved"
                      => /\ Get(promises'[p].v, "id") = JNum(id)
                         /\ Answered(t, id, "result")
               /\ promises'[p].kind = "remote" => Answered(t, id, "error")
               /\ (promises[p].st = "pending" /\ promises'[p].kind \in {"result", "remote"})
                      => Delivers(t) /\ id \in FramesIn(t)
               /\ promises[p].st # "pending" => promises'[p] = promises[p]]_vars

\* Two requests are pending together; the child has answered the second
\* only: it is resolved with its response and the first still waits.
C26_Witness ==
    /\ Len(promises) = 2
    /\ Len(child[1].inbox) = 2
    /\ promises[2].st = "resolved"
    /\ Get(promises[2].v, "id") = JNum(2)
    /\ promises[1].st = "pending"
    /\ 1 \in transports[1].messageHandlers
    /\ \A a \in child[1].answered : a.id = 2

\* What the Error a promise was rejected with has under the name `field`:
\* new Error(message) has its message and nothing else of the frame.
ErrorField(pr, field) == IF field = "message" THEN pr.v ELSE Undefined

\* C28: a request answered with an error frame is rejected with an error
\* that carries the code and the message of the frame's error object.
C28_RemoteErrorCarriesCodeAndMessage ==
    \A p \in 1..Len(promises) :
        promises[p].kind = "remote"
            => /\ ErrorField(promises[p], "message") = JStr(<<"boom">>)
               /\ ErrorField(promises[p], "code") = JNum(7)

\* ------------------------------------------------------------------------
\* Properties of the transports discovery makes and closes (SpecHost)
\* ------------------------------------------------------------------------

\* The child of transport t was spawned and has not been killed.
Runs(t) == transports[t].process /\ transports[t].command # "missing"

\* The transports made for the server under `key` whose child runs.
Live(key) ==
    {e.conn : e \in {a \in Attempts : a.key = key /\ Runs(a.conn)}}
        \cup (IF /\ upstream.pc \in {"initialize", "list"}
                 /\ upstream.servers[upstream.s].key = key
                 /\ Runs(upstream.conn)
              THEN {upstream.conn} ELSE {})

\* C27: at every moment at most one transport made for a server key has a
\* child that is not closed.
C27_OneLiveTransportPerKey ==
    config # JNull =>
        \A i \in 1..Len(config.mcpServers) :
            Cardinality(Live(config.mcpServers[i].key)) <= 1

\* The transports made by the passes before the last one done.
EarlierTransports ==
    UNION { {upstream.passes[p].log[i].conn : i \in 1..Len(upstream.passes[p].log)} :
            p \in 1..(Len(upstream.passes) - 1) }

\* C30: when a pass of discovery is done, no record of the registry has a
\* transport made by an earlier pass, and no child of a transport made by
\* an earlier pass still runs.
C30_RediscoveryWholesale ==
    upstream.pc \in {"idle", "wait"} =>
        \A t \in EarlierTransports :
            /\ \A i \in 1..Len(tools) : tools[i].v.client # t
            /\ \A i \in 1..Len(clients) : clients[i].v.transport # t
            /\ ~Runs(t)

\* ------------------------------------------------------------------------
\* Properties of shutdown (SpecShutdown)
\* ------------------------------------------------------------------------

\* C29: once the process has exited on a signal, its exit code is 0, the
\* client table and the registry are empty, and the transport of every
\* client that was in the table is closed, its child killed, but for those
\* whose close() threw.
C29_ShutdownClosesClients ==
    upstream.pc = "exited" =>
        /\ upstream.exit.code = 0
        /\ clients = <<>> /\ tools = <<>>
        /\ \A i \in 1..Len(upstream.exit.clients) :
               \E t \in {upstream.exit.clients[i].v.transport} :
                   t \notin upstream.exit.failing
                       => ~transports[t].connected /\ ~transports[t].process
                          /\ transports[t].messageHandlers = {}

\* The process has exited with two clients in its table; closing the first
\* threw, the second is closed.
C29_Witness ==
    /\ upstream.pc = "exited"
    /\ Len(upstream.exit.clients) = 2
    /\ upstream.exit.failing = {upstream.exit.clients[1].v.transport}
    /\ transports[upstream.exit.clients[1].v.transport].connected
    /\ ~transports[upstream.exit.clients[2].v.transport].connected

\* ------------------------------------------------------------------------
\* Properties of the transport: write failures, close twice (SpecTransport)
\* ------------------------------------------------------------------------

\* The write of request id of transport t fails in this step: its callback
\* runs with an error (the child never gets the request), or send() assigns
\* the id and its try block throws.
WriteFails(t, id) ==
    \/ /\ id \in transports[t].writes
       /\ id \notin transports'[t].writes
       /\ \A i \in DOMAIN child'[t].inbox : child'[t].inbox[i].id # id
    \/ /\ id \notin Assigned(t)
       /\ Len(transports'[t].assigned) = Len(transports[t].assigned) + 1
       /\ transports'[t].assigned[Len(transports'[t].assigned)] = id
       /\ id \notin transports'[t].writes

\* The promise of request id of transport t before the step; the one send()
\* creates in the step counts as pending.
Before(t, id) ==
    IF id \in Assigned(t) THEN PromiseOf(t, id) ELSE Pending

\* C31: a step in which the write of a request fails leaves the request
\* without an entry in the pending table, its timer disarmed and its promise
\* rejected, with the transport's write error when the request was still
\* pending; the entries, timers and promises of the other requests are as
\* they were.
C31_WriteFailureRejects ==
    [][\A t \in TIds : \A id \in 1..MaxSends :
           WriteFails(t, id)
               => /\ id \notin transports'[t].messageHandlers
                  /\ id \notin transports'[t].timers
                  /\ promises'[transports'[t].promiseOf[id]].st = "rejected"
                  /\ Before(t, id).st = "pending"
                         => promises'[transports'[t].promiseOf[id]].kind
                                \in {"write", "serialize"}
                  /\ transports'[t].messageHandlers \ {id}
                         = transports[t].messageHandlers \ {id}
                  /\ transports'[t].timers \ {id} = transports[t].timers \ {id}
                  /\ \A o \in Assigned(t) \ {id} :
                         promises'[transports'[t].promiseOf[o]] = PromiseOf(t, o)]_vars

\* The write of the first request failed while the second was pending: the
\* first is rejected with the write error, the second still waits with its
\* entry and its timer.
C31_Witness ==
    /\ Len(promises) = 2
    /\ promises[1].kind = "write"
    /\ promises[2].st = "pending"
    /\ transports[1].messageHandlers = {2}
    /\ transports[1].timers = {2}

\* ------------------------------------------------------------------------
\* SpecClose: one started transport that is closed at any moment, also in
\* the middle of an answer: stdout delivers the stream cut anywhere, and
\* what the child wrote before it was killed still arrives afterwards.
\* Callers go on calling send() and close().
\* ------------------------------------------------------------------------

\* What the child writes: one answer to each request it has read.
CloseWrites(t) ==
    {[id |-> id, style |-> "line", text |-> ResultLine(id, JObj(<<>>))] : id \in Unanswered(t)}

NextClose ==
    \/ \E t \in TIds : Send(t, PingMessage, FALSE)
    \/ \E t \in TIds, id \in 1..MaxSends : WriteCallback(t, id, FALSE)
    \/ \E t \in TIds : \E w \in CloseWrites(t) : ChildWrites(t, w)
    \/ \E t \in TIds : \E n \in 1..Len(child[t].pipe) : StdoutData(t, n)
    \/ \E t \in TIds : Close(t)

SpecClose == InitTransport /\ [][NextClose]_vars

\* The state close() leaves: disconnected, no child, nothing pending,
\* nothing buffered.
IsClosed(tr) ==
    /\ ~tr.connected
    /\ ~tr.process
    /\ tr.messageHandlers = {}
    /\ tr.messageBuffer = <<>>

\* C32: a step that closes a transport leaves it disconnected, without
\* child, with an empty pending table and an empty buffer, a state that
\* another close() does not change; on a transport that is disconnected no
\* step assigns an id or adds a pending entry; and a promise send() returns
\* is one of a connected transport or is already rejected as not connected.
C32_CloseIdempotent ==
    [][/\ \A t \in TIds :
              /\ (transports[t].connected /\ ~transports'[t].connected)
                     => /\ IsClosed(transports'[t])
                        /\ close(transports'[t]) = transports'[t]
              /\ ~transports[t].connected
                     => /\ ~transports'[t].connected /\ ~transports'[t].process
                        /\ close(close(transports[t])) = close(transports[t])
                        /\ transports'[t].nextId = transports[t].nextId
                        /\ transports'[t].assigned = transports[t].assigned
                        /\ transports'[t].promiseOf = transports[t].promiseOf
                        /\ transports'[t].messageHandlers = {}
       /\ \A p \in (Len(promises) + 1)..Len(promises') :
              \/ \E c \in TIds : \E id \in DOMAIN transports'[c].promiseOf :
                     /\ transports'[c].promiseOf[id] = p
                     /\ transports[c].connected
              \/ /\ promises'[p].st = "rejected"
                 /\ promises'[p].kind = "notconnected"]_vars

\* The transport was closed after a chunk of data had ended inside the
\* answer to the first request, which is still not delivered: the buffer is
\* empty, and a send() made after the close was rejected without taking the
\* second id.
C32_Witness ==
    /\ IsClosed(transports[1])
    /\ 1 \in child[1].cut
    /\ \E i \in 1..Len(child[1].unread) : child[1].unread[i].id = 1
    /\ Len(promises) = 2
    /\ promises[1].st = "pending"
    /\ promises[2].kind = "notconnected"
    /\ transports[1].nextId = 2

\* ------------------------------------------------------------------------
\* Failures of a step: substitution, empty response (SpecChain)
\* ------------------------------------------------------------------------

\* The chain has failed in a step because the arguments, the sentinel
\* replaced, did not parse as JSON.
SubstitutionFailed ==
    /\ chain.pc = "returned"
    /\ chain.failed
    /\ chain.thrown.where = "step"
    /\ chain.thrown.step > 0
    /\ chain.thrown.message = SyntaxError

\* No tools/call was sent for the step that failed or for a later one.
NoCallFrom(step) ==
    \A j \in 1..Len(chain.calls) : chain.calls[j].step < step

\* The text names the step, counted from 0 or from 1.
NamesStep(text, step) ==
    \/ Includes(text, NumDigits(step))
    \/ Includes(text, NumDigits(step + 1))

\* C33: when the arguments of a step do not parse as JSON after the
\* substitution, the chain fails, the error it reports names the step index,
\* and no tools/call is sent for that step or any later one.
C33_SubstitutionErrorNamesStep ==
    SubstitutionFailed
        => /\ NoCallFrom(chain.thrown.step)
           /\ NamesStep(JsString(chain.reply.text), chain.thrown.step)

\* ------------------------------------------------------------------------
\* SpecContent: one invocation of mcp_chain whose downstream server answers
\* each call once: with a text, with a result without content, with an
\* empty content array, or with an image as the first content item.
\* ------------------------------------------------------------------------

\* Results of tools/call that carry no text.
NoContentResult == JObj(<<>>)
ImageResult ==
    JObj(<< [k |-> <<"content">>,
             v |-> JArr(<< JObj(<< [k |-> <<"type">>, v |-> JStr(<<"image">>)],
                                   [k |-> <<"data">>, v |-> JStr(<<"AAAA">>)] >>) >>)] >>)

ContentChains ==
    { <<Step(<<"fetch">>, FetchArgs)>>,
      <<Step(XPathKey, FetchArgs), Step(<<"fetch">>, FetchArgs)>>,
      <<Step(<<"fetch">>, FetchArgs), Step(XPathKey, QuotedTemplate)>> }

ContentLines(t) ==
    {[id |-> id, style |-> "result", text |-> ResultLine(id, r)] :
        id \in Unanswered(t),
        r \in {TextResult(<<"hello">>), TextResult(<<"say", SP, Q, "hi", Q>>),
                NoContentResult, EmptyResult, ImageResult}}

NextContent ==
    \/ \E mcpPath \in ContentChains : McpChain(mcpPath)
    \/ Resume
    \/ \E t \in TIds, id \in 1..MaxSends, error \in BOOLEAN : WriteCallback(t, id, error)
    \/ \E t \in TIds : \E w \in ContentLines(t) : ChildWrites(t, w)
    \/ \E t \in TIds : StdoutData(t, Len(child[t].pipe))

SpecContent == InitChain /\ [][NextContent]_vars

\* A tools/call result without content, with an empty content array, or
\* whose first content item has no text.
WithoutText(result) ==
    \E content \in {Get(result, "content")} :
        \/ ~Truthy(content)
        \/ ContentLength(content) = 0
        \/ FirstText(content) = Undefined

\* The j-th call of the chain has returned to executeChain with a result
\* without text.
ReturnedWithoutText(j) ==
    /\ chain.awaiting # chain.calls[j].p
    /\ promises[chain.calls[j].p].st = "resolved"
    /\ callToolReturn(promises[chain.calls[j].p]).ok
    /\ WithoutText(callToolReturn(promises[chain.calls[j].p]).v)

\* C34: when a call returns a result without content, with an empty content
\* array or with a first content item that has no text, the chain fails in
\* that step with the empty-response error: no later step is called and the
\* chain returns the failure, not a text made from that result.
C34_NoTextIsEmptyResponse ==
    \A j \in 1..Len(chain.calls) :
        ReturnedWithoutText(j)
            => /\ chain.pc = "returned"
               /\ chain.failed
               /\ chain.thrown.step = chain.calls[j].step
               /\ chain.thrown.message = EmptyResponse(chain.calls[j].toolName)
               /\ Len(chain.calls) = j

\* ------------------------------------------------------------------------
\* The list of available tools (SpecRegistry)
\* ------------------------------------------------------------------------

\* The primary aliases of the tools of a client, in the order it lists them.
PrimaryOf(client) ==
    [n \in 1..Len(client.tools) |->
        formatName(client.serverInfo.name) \o <<"_">> \o client.tools[n]]

\* The primary aliases of the tools of the first j clients of the client
\* table, in the order in which they were registered.
RECURSIVE Registered(_)
Registered(j) ==
    IF j = 0 THEN <<>> ELSE Registered(j - 1) \o PrimaryOf(clients[j].v)

\* A list without the later occurrences of a name.
RECURSIVE Once(_)
Once(list) ==
    IF list = <<>> THEN <<>>
    ELSE The({ IF \E i \in 1..Len(before) : before[i] = list[Len(list)]
               THEN before ELSE Append(before, list[Len(list)]) :
               before \in {Once(SubSeq(list, 1, Len(list) - 1))} })

\* C35: the list of available tools is the list of the primary aliases of
\* the registered tools in the order of their registration, each alias
\* once; it holds no other name.
C35_ListInRegistrationOrder ==
    getAvailableTools(tools) = Once(Registered(Len(clients)))

\* ------------------------------------------------------------------------
\* What a pass of discovery leaves running (SpecHost)
\* ------------------------------------------------------------------------

\* Transport t is the transport of a client of the client table.
InClientTable(t) == \E i \in 1..Len(clients) : clients[i].v.transport = t

\* C37: when a pass of discovery is done, the child of every transport the
\* pass has made belongs to a client of the client table or has been
\* killed.
C37_NoChildLeftBehind ==
    (upstream.pc \in {"idle", "wait"} /\ upstream.passes # <<>>)
        => \A e \in {upstream.passes[Len(upstream.passes)].log[i] :
                        i \in 1..Len(upstream.passes[Len(upstream.passes)].log)} :
               InClientTable(e.conn) \/ ~Runs(e.conn)

\* ------------------------------------------------------------------------
\* The names of the list looked up again (SpecRegistry)
\* ------------------------------------------------------------------------

\* The name getAvailableTools gives for a record of the registry.
ListedName(toolInfo) == formatName(toolInfo.name) \o <<"_">> \o toolInfo.tool.name

\* C39: every name of the list of available tools is a key of the registry
\* and findTool gives for it a record whose server name and tool name make
\* that name.
C39_ListedNamesResolve ==
    \A i \in 1..Len(getAvailableTools(tools)) :
        \E name \in {getAvailableTools(tools)[i]} :
            /\ findTool(tools, name) # Undefined
            /\ ListedName(findTool(tools, name)) = name

\* ------------------------------------------------------------------------
\* SpecLive: the upstream server with a configuration, serving mcp_chain
\* while discover_tools rebuilds the registry and while a signal shuts the
\* process down.  The loops that close the clients, in discoverTools and in
\* McpClientManager.close, are taken one await at a time.  An await of a
\* promise that is settled lets only continuations run, no event: nothing
\* new (a request of the upstream client, data or a write callback of a
\* child, a timer, a signal) starts while a continuation is ready.
\* ------------------------------------------------------------------------

\* The configurations: two servers that register, and the chainer itself
\* before a server that registers.
LiveConfigs == { [mcpServers |-> <<Web, Docs>>], [mcpServers |-> <<Loop, Web>>] }

\* The chains: fetch; fetch, then the xpath registered last.
LiveChains ==
    { <<Step(<<"fetch">>, FetchArgs)>>,
      <<Step(<<"fetch">>, FetchArgs), Step(<<"xpath">>, QuotedTemplate)>> }

\* The lines a child writes at most: its two answers of the handshake and
\* those to the calls of a chain.
LiveLines == MaxLines + 2

\* The ids of the requests of one transport: initialize, tools/list and the
\* calls of a chain.
LiveIds == 1..(MaxSends + 2)

InitLive ==
    /\ transports = [t \in ConnIds |-> NewTransport]
    /\ promises = <<>>
    /\ child = [t \in ConnIds |-> NewChild]
    /\ tools = <<>>
    /\ clients = <<>>
    /\ config = JNull
    /\ chain = NewChain
    /\ subst = NoSubst
    /\ upstream \in {NewUpstream(c) : c \in LiveConfigs}

\* The signal handler is at work: it has begun to close the clients and
\* the process has not exited.
Stopping == upstream.pc # "exited" /\ upstream.exit # Undefined

\* No continuation is ready to run: the chain and the pass of discovery
\* wait for promises that are pending, and no loop is between two close().
Quiet ==
    /\ Running
    /\ ~Stopping
    /\ upstream.pc # "closing"
    /\ ~(chain.pc = "awaiting" /\ Returned(promises[chain.awaiting]))
    /\ ~(upstream.pc \in {"initialize", "list"} /\ Returned(promises[upstream.awaiting]))

\* The transports with that of the k-th client of the table closed.
CloseClient(k) == [transports EXCEPT ![clients[k].v.transport] = close(@)]

\* A discoverTools that closes the clients before it clears the registry.
BeginDiscover_closesFirst ==
    /\ upstream.pc = "idle"
    /\ upstream.initialized
    /\ Len(upstream.passes) < MaxPasses
    /\ IF clients = <<>>
       THEN StartPass([upstream EXCEPT !.by = "tool"], config)
       ELSE /\ transports' = CloseClient(1)
            /\ upstream' = [upstream EXCEPT !.pc = "closing", !.by = "tool", !.s = 1]
            /\ UNCHANGED <<promises, child, tools, clients>>
    /\ UNCHANGED <<config, chain, subst>>

\* The handler of discover_tools is called: discoverTools clears the
\* registry and goes as far as its first await, the close() of the first
\* client or, with no client, the first of connectToServer.
BeginDiscover ==
    /\ upstream.pc = "idle"
    /\ upstream.initialized
    /\ Len(upstream.passes) < MaxPasses
    /\ IF clients = <<>>
       THEN StartPass([upstream EXCEPT !.by = "tool"], config)
       ELSE /\ tools' = <<>>
            /\ transports' = CloseClient(1)
            /\ upstream' = [upstream EXCEPT !.pc = "closing", !.by = "tool", !.s = 1]
            /\ UNCHANGED <<promises, child, clients>>
    /\ UNCHANGED <<config, chain, subst>>

\* discoverTools after the await of a close(): the next client is closed,
\* or the client table is cleared and the first server connected to.
AfterClose ==
    /\ upstream.pc = "closing"
    /\ IF upstream.s < Len(clients)
       THEN /\ transports' = CloseClient(upstream.s + 1)
            /\ upstream' = [upstream EXCEPT !.s = @ + 1]
            /\ UNCHANGED <<promises, child, tools, clients>>
       ELSE StartPass(upstream, config)
    /\ UNCHANGED <<config, chain, subst>>

\* SIGINT or SIGTERM: server.stop() calls McpClientManager.close(), which
\* goes as far as the await of the first close(); with no client the tables
\* are cleared and the process exits.
Signal ==
    /\ upstream.pc # "start"
    /\ IF clients = <<>>
       THEN Shutdown({})
       ELSE /\ transports' = CloseClient(1)
            /\ upstream' = [upstream EXCEPT !.exit = [closing |-> 1]]
            /\ UNCHANGED <<promises, child, tools, clients, config, chain, subst>>

\* McpClientManager.close() after the await of a close(): the next client
\* is closed, or both tables are cleared and the process exits.
AfterSignalClose ==
    /\ Stopping
    /\ IF upstream.exit.closing < Len(clients)
       THEN /\ transports' = CloseClient(upstream.exit.closing + 1)
            /\ upstream' = [upstream EXCEPT !.exit = [closing |-> @.closing + 1]]
            /\ UNCHANGED <<promises, child, tools, clients, config, chain, subst>>
       ELSE Shutdown({})

\* mcp_chain is called on the server once init has registered it.
LiveMcpChain(mcpPath) ==
    /\ upstream.initialized
    /\ McpChain(mcpPath)

NextLive ==
    \/ Quiet /\ ServerInit
    \/ Quiet /\ BeginDiscover
    \/ AfterClose
    \/ Running /\ Connected
    \/ Quiet /\ Reply
    \/ \E mcpPath \in LiveChains : Quiet /\ LiveMcpChain(mcpPath)
    \/ Running /\ Resume
    \/ \E t \in ConnIds, id \in LiveIds : Quiet /\ WriteCallback(t, id, FALSE)
    \/ \E t \in ConnIds, id \in LiveIds : Quiet /\ Expires(t, id)
    \/ \E t \in ConnIds : \E w \in ServerLines(t) : ChildWritesUpTo(t, w, LiveLines)
    \/ \E t \in ConnIds : Quiet /\ StdoutData(t, Len(child[t].pipe))
    \/ Quiet /\ Signal
    \/ AfterSignalClose

SpecLive == InitLive /\ [][NextLive]_vars

\* ------------------------------------------------------------------------
\* C36: the order of the handshake
\* ------------------------------------------------------------------------

\* The requests of method `method` that were sent on transport t, by id.
SentOn(t, method) ==
    {id \in DOMAIN transports[t].requests : transports[t].requests[id].method = method}

\* The result of the answer that resolved request id of transport t;
\* Undefined while it is pending and when it was rejected.
AnswerTo(t, id) ==
    IF promises[transports[t].promiseOf[id]].st = "resolved"
    THEN Get(promises[transports[t].promiseOf[id]].v, "result")
    ELSE Undefined

\* The answer to an initialize of transport t has come, and the identity in
\* it is not the host's.
Initialized(t) ==
    \E id \in SentOn(t, "initialize") :
        \E serverInfo \in {Get(AnswerTo(t, id), "serverInfo")} :
            /\ Truthy(serverInfo)
            /\ ~(/\ Get(serverInfo, "name") = Get(HostInfo, "name")
                 /\ Get(serverInfo, "version") = Get(HostInfo, "version"))

\* The answer to a tools/list of transport t has come, with a tools array.
ListAnswered(t) == \E id \in SentOn(t, "tools/list") : Truthy(Get(AnswerTo(t, id), "tools"))

\* C36: the handshake with a downstream is ordered.  Where tools/list was
\* sent on a transport, the answer to its initialize has been received and
\* does not carry the host's own identity; every record of the registry
\* belongs to a transport whose tools/list was answered; and tools/call was
\* sent only on transports on which both answers had been received.
C36_HandshakeOrdered ==
    /\ \A t \in ConnIds : SentOn(t, "tools/list") # {} => Initialized(t)
    /\ \A j \in 1..Len(tools) : ListAnswered(tools[j].v.client)
    /\ \A t \in ConnIds : SentOn(t, "tools/call") # {} => Initialized(t) /\ ListAnswered(t)

\* A chain's call was sent, a second pass of discovery has returned, and the
\* transport to the host itself saw initialize and nothing else.
C36_Witness ==
    /\ \E t \in ConnIds : SentOn(t, "tools/call") # {} /\ Len(upstream.passes) > 1
    /\ \E u \in ConnIds :
           /\ transports[u].command = "self"
           /\ \E id \in SentOn(u, "initialize") : Truthy(AnswerTo(u, id))
           /\ SentOn(u, "tools/list") = {}

\* ------------------------------------------------------------------------
\* C38: the registry and the transports that were closed
\* ------------------------------------------------------------------------

\* The records find() can return all reference a connected transport.
RegistryConnected == \A j \in 1..Len(tools) : transports[tools[j].v.client].connected

\* No call of the chain was refused by a transport that was not connected.
NoCallOnClosed ==
    \A c \in 1..Len(chain.calls) :
        ~(/\ promises[chain.calls[c].p].st = "rejected"
          /\ promises[chain.calls[c].p].kind = "notconnected")

\* C38: in every reachable state, the intermediate states of a rediscovery
\* and of a shutdown that interleave with chains included, every record that
\* find() can return references a connected transport, and no chain obtains
\* a tool whose transport was closed.
C38_RegistryConnected == RegistryConnected /\ NoCallOnClosed

\* C38, as far as it holds: outside McpClientManager.close(), which runs at
\* shutdown without yielding to a chain, every record that find() can return
\* references a connected transport, and in every state no call of a chain
\* was sent to a transport that was closed.
C38_ConnectedWhereFindRuns ==
    /\ ~Stopping => RegistryConnected
    /\ NoCallOnClosed

\* A rediscovery has closed the first of two clients and not the second,
\* while a chain waits for the answer to a call it sent to the first.
C38_Witness ==
    /\ upstream.pc = "closing"
    /\ chain.pc = "awaiting"
    /\ promises[chain.awaiting].st = "pending"
    /\ \E t \in ConnIds :
           /\ ~transports[t].connected
           /\ \E id \in DOMAIN transports[t].promiseOf :
                  transports[t].promiseOf[id] = chain.awaiting
    /\ \E k \in 1..Len(clients) : transports[clients[k].v.transport].connected

====
